---- MODULE Spec2Model ----
(***************************************************************************)
(* A model of the tree-shaped peer-to-peer overlay of                      *)
(* SeyedAlirezaFatemi/p2p_network_project: the wire codec (Packet.py), the *)
(* root's NetworkGraph (tools/Graph.py), the per-neighbour connections     *)
(* (Stream.py, tools/Node.py) and the peer state machine with its reunion  *)
(* daemon (Peer.py).                                                       *)
(*                                                                         *)
(* Text is a sequence of one-character strings, so that formatting and     *)
(* parsing (parse_ip, parse_port, inet_ntoa, the body grammars) are        *)
(* computed and not assumed.  An address is the pair <<ip text, port>>.    *)
(***************************************************************************)
EXTENDS Integers, Sequences, FiniteSets, TLC

(***************************************************************************)
(* Bounds of the model.                                                    *)
(***************************************************************************)
\* commands typed at one peer: 'register', then 'advertise' again and again
MaxCommands == 2
\* re-advertisements of the non-root reunion daemons, in total
MaxReadvertise == 1
\* passes of the root's reunion daemon that find a node stale
MaxExpire == 1
\* Reunion-Hello packets originated in total by the non-root daemons
MaxHello == 2
\* longest Reunion path a peer is handed (a path can grow without end when
\* the local parent references form a cycle)
MaxPath == 3
\* frames the clients hand to the root in the root-only specification
MaxEnvFrames == 5
\* calls made on the NetworkGraph in the specification of the graph alone
MaxCalls == 5
MaxPeerFrames == 3
MaxFlushFrames == 2
\* sends that raise, and frames waiting at one receiver, in the
\* specification of recovery
MaxSendFailures == 1
MaxInBuf == 2
\* a packet type code outside PacketType (1..5)
UnknownType == 6

(***************************************************************************)
(* Text helpers: Python's str methods as used by the program.              *)
(***************************************************************************)
Digits == <<"0", "1", "2", "3", "4", "5", "6", "7", "8", "9">>

IsDigit(c) == \E i \in 1..10 : Digits[i] = c

DigitVal(c) == (CHOOSE i \in 1..10 : Digits[i] = c) - 1

Min(a, b) == IF a < b THEN a ELSE b

\* s[a:b] of Python, for 0 <= a, 0 <= b
Slice(s, a, b) == SubSeq(s, a + 1, Min(b, Len(s)))

\* str(n) for n >= 0
RECURSIVE IntToStr(_)
IntToStr(n) == IF n < 10 THEN <<Digits[n + 1]>>
               ELSE IntToStr(n \div 10) \o <<Digits[(n % 10) + 1]>>

\* int(s) is defined on a non-empty run of digits (the only texts the
\* program's own packets hold); anything else raises ValueError
ValidInt(s) == Len(s) > 0 /\ \A i \in 1..Len(s) : IsDigit(s[i])

RECURSIVE StrToInt(_)
StrToInt(s) == IF Len(s) = 0 THEN 0
               ELSE 10 * StrToInt(SubSeq(s, 1, Len(s) - 1)) + DigitVal(s[Len(s)])

\* s.zfill(w)
RECURSIVE ZFill(_, _)
ZFill(s, w) == IF Len(s) >= w THEN s ELSE ZFill(<<"0">> \o s, w)

\* s.split('.')
RECURSIVE SplitDot(_)
SplitDot(s) ==
    IF \A i \in 1..Len(s) : s[i] # "."
    THEN <<s>>
    ELSE LET k == CHOOSE i \in 1..Len(s) :
                      s[i] = "." /\ \A j \in 1..(i - 1) : s[j] # "."
         IN <<SubSeq(s, 1, k - 1)>> \o SplitDot(SubSeq(s, k + 1, Len(s)))

\* '.'.join(parts)
RECURSIVE JoinDot(_)
JoinDot(parts) == IF Len(parts) = 0 THEN <<>>
                  ELSE IF Len(parts) = 1 THEN parts[1]
                  ELSE parts[1] \o <<".">> \o JoinDot(Tail(parts))

\* tools/parsers.py
parse_ip(ip) ==
    LET parts == SplitDot(ip)
    IN JoinDot([i \in 1..Len(parts) |-> ZFill(IntToStr(StrToInt(parts[i])), 3)])

parse_port(port) == ZFill(IntToStr(port), 5)

\* socket.inet_ntoa on four bytes: dotted decimal without padding
inet_ntoa(b) == JoinDot([i \in 1..4 |-> IntToStr(b[i])])

(***************************************************************************)
(* Packet.py: the packet object, its wire form and the packet builders.    *)
(***************************************************************************)
VERSION == 1
REGISTER == 1
ADVERTISE == 2
JOIN == 3
MESSAGE == 4
REUNION == 5

REQ == <<"R", "E", "Q">>
RES == <<"R", "E", "S">>

\* Python's None where an address or a list is expected
None == <<>>

Packet(version, packet_type, length, source_ip, source_port, body) ==
    [version |-> version, packet_type |-> packet_type, length |-> length,
     source_ip |-> source_ip, source_port |-> source_port, body |-> body]

U16(n) == <<(n \div 256) % 256, n % 256>>
U32(n) == <<(n \div 16777216) % 256, (n \div 65536) % 256, (n \div 256) % 256, n % 256>>
FromU16(b) == 256 * b[1] + b[2]
FromU32(b) == 16777216 * b[1] + 65536 * b[2] + 256 * b[3] + b[4]

\* Packet.get_buf: struct.pack('!HHLHHHHL<n>s', ...); a frame is its 20
\* header bytes and its body characters
get_buf(p) ==
    LET parts == SplitDot(p.source_ip)
        ip == [i \in 1..4 |-> StrToInt(parts[i])]
    IN [header |-> U16(p.version) \o U16(p.packet_type) \o U32(p.length)
                   \o U16(ip[1]) \o U16(ip[2]) \o U16(ip[3]) \o U16(ip[4])
                   \o U32(p.source_port),
        body |-> p.body]

\* PacketFactory.parse_buffer
parse_buffer(buffer) ==
    LET h == buffer.header
    IN Packet(FromU16(SubSeq(h, 1, 2)), FromU16(SubSeq(h, 3, 4)),
              FromU32(SubSeq(h, 5, 8)),
              inet_ntoa(<<h[10], h[12], h[14], h[16]>>),
              FromU32(SubSeq(h, 17, 20)),
              buffer.body)

get_source_server_address(p) == <<p.source_ip, p.source_port>>

get_n_entries(p) == StrToInt(Slice(p.body, 3, 5))

\* Packet.get_addresses
get_addresses(p) ==
    [i \in 1..get_n_entries(p) |->
        <<Slice(p.body, 5 + 20 * (i - 1), 20 + 20 * (i - 1)),
          StrToInt(Slice(p.body, 20 + 20 * (i - 1), 25 + 20 * (i - 1)))>>]

\* Packet.get_addresses_in_reverse: for i in range(n_entries - 1, 0, -1),
\* that is the entries with 0-based index n-1 down to 1
get_addresses_in_reverse(p) ==
    LET n == get_n_entries(p)
    IN [k \in 1..(n - 1) |->
           LET i == n - k
           IN <<Slice(p.body, 5 + 20 * i, 20 + 20 * i),
                StrToInt(Slice(p.body, 20 + 20 * i, 25 + 20 * i))>>]

RECURSIVE AddressesText(_)
AddressesText(addresses) ==
    IF Len(addresses) = 0 THEN <<>>
    ELSE parse_ip(addresses[1][1]) \o parse_port(addresses[1][2])
         \o AddressesText(Tail(addresses))

\* PacketFactory.new_reunion_packet
new_reunion_packet(reunion_type, source_address, addresses) ==
    LET body == reunion_type \o ZFill(IntToStr(Len(addresses)), 2)
                \o AddressesText(addresses)
    IN Packet(VERSION, REUNION, Len(body), source_address[1], source_address[2], body)

\* PacketFactory.new_advertise_packet (neighbour is not None here: with
\* None the builder raises TypeError, which the caller models)
new_advertise_packet(advertise_type, source_server_address, neighbour) ==
    LET body == IF advertise_type = REQ THEN REQ
                ELSE RES \o parse_ip(neighbour[1]) \o parse_port(neighbour[2])
    IN Packet(VERSION, ADVERTISE, Len(body), source_server_address[1],
              source_server_address[2], body)

\* PacketFactory.new_join_packet
new_join_packet(source_server_address) ==
    Packet(VERSION, JOIN, 4, source_server_address[1], source_server_address[2],
           <<"J", "O", "I", "N">>)

\* PacketFactory.new_register_packet
new_register_packet(register_type, source_server_address, address) ==
    LET body == IF register_type = REQ
                THEN REQ \o parse_ip(address[1]) \o parse_port(address[2])
                ELSE RES \o <<"A", "C", "K">>
    IN Packet(VERSION, REGISTER, Len(body), source_server_address[1],
              source_server_address[2], body)

\* PacketFactory.new_message_packet
new_message_packet(message, source_server_address) ==
    Packet(VERSION, MESSAGE, Len(message), source_server_address[1],
           source_server_address[2], message)

\* Packet.get_advertised_address is called by Peer.__handle_advertise_response
\* but is not part of the sources at hand: the assigned neighbour is read from
\* the Advertise-Response body 'RES' + IP(15) + Port(5)
get_advertised_address(p) ==
    <<Slice(p.body, 3, 18), StrToInt(Slice(p.body, 18, 23))>>

(***************************************************************************)
(* tools/Graph.py: the root's NetworkGraph.  GraphNode objects live in a   *)
(* heap (a sequence; an object is its index) because the program keeps     *)
(* references to nodes it has removed from the node table: in the parent   *)
(* field and the children lists of other nodes.  Reference 0 is None.      *)
(* The time stamp last_hello is not stored: the reunion daemon's question  *)
(* "more than 24 s since the last hello?" is an input of its pass.         *)
(***************************************************************************)
NoneRef == 0
NoneLevel == -1
MaxLevel == 8
MaxChildren == 2
RootRef == 1

\* GraphNode.__init__
GraphNode(address) ==
    [address |-> address, parent |-> NoneRef, children |-> <<>>,
     level |-> NoneLevel, is_alive |-> FALSE]

\* NetworkGraph.__init__: root.keep_alive(); nodes = [root]
NetworkGraph(root_address) ==
    [heap |-> <<[GraphNode(root_address) EXCEPT !.is_alive = TRUE]>>,
     nodes |-> <<RootRef>>]

\* GraphNode.__eq__: two nodes are equal when their addresses are
NodeEq(heap, a, b) == heap[a].address = heap[b].address

\* NetworkGraph.find_node: the first node of the table with that address
find_node(g, node_address) ==
    IF \E i \in 1..Len(g.nodes) : g.heap[g.nodes[i]].address = node_address
    THEN g.nodes[CHOOSE i \in 1..Len(g.nodes) :
                    /\ g.heap[g.nodes[i]].address = node_address
                    /\ \A j \in 1..(i - 1) : g.heap[g.nodes[j]].address # node_address]
    ELSE NoneRef

\* list.remove(x) on a list of GraphNode references: drops the first entry
\* equal (by address) to x; "absent" stands for the ValueError
HasEq(heap, list, x) == \E i \in 1..Len(list) : NodeEq(heap, list[i], x)

RemoveEq(heap, list, x) ==
    LET k == CHOOSE i \in 1..Len(list) :
                 /\ NodeEq(heap, list[i], x)
                 /\ \A j \in 1..(i - 1) : ~NodeEq(heap, list[j], x)
    IN SubSeq(list, 1, k - 1) \o SubSeq(list, k + 1, Len(list))

\* GraphNode.add_child with its guard removed (a plausible slip)
add_child_unguarded(heap, parent, child) ==
    [heap EXCEPT ![parent].children = Append(@, child)]

\* GraphNode.add_child
add_child(heap, parent, child) ==
    IF Len(heap[parent].children) < MaxChildren
    THEN [heap EXCEPT ![parent].children = Append(@, child)]
    ELSE heap

\* check_is_parent(child, parent): walks the parent references up from
\* child.  The walk has no visited set: on a cycle of parent references that
\* does not hold `parent` it never returns ("loop").  A walk longer than the
\* heap has entered such a cycle.
RECURSIVE CheckIsParentFrom(_, _, _, _)
CheckIsParentFrom(heap, child, parent, fuel) ==
    LET c == heap[child].parent
    IN IF c = NoneRef THEN "False"
       ELSE IF NodeEq(heap, c, parent) THEN "True"
       ELSE IF fuel = 0 THEN "loop"
       ELSE CheckIsParentFrom(heap, c, parent, fuel - 1)

check_is_parent(heap, child, parent) == CheckIsParentFrom(heap, child, parent, Len(heap))

\* the inner loop of the traversal: for child in node.children
RECURSIVE BfsChildren(_, _, _, _)
BfsChildren(heap, children, queue, visited) ==
    IF Len(children) = 0 THEN [queue |-> queue, visited |-> visited]
    ELSE LET c == Head(children)
         IN IF heap[c].address \notin visited
            THEN BfsChildren(heap, Tail(children), Append(queue, c),
                             visited \cup {heap[c].address})
            ELSE BfsChildren(heap, Tail(children), queue, visited)

\* the traversal of find_live_node: while queue
RECURSIVE BfsLoop(_, _, _, _)
BfsLoop(heap, queue, visited, graph) ==
    IF Len(queue) = 0 THEN graph
    ELSE LET node == Head(queue)
             r == BfsChildren(heap, heap[node].children, Tail(queue), visited)
         IN BfsLoop(heap, r.queue, r.visited, Append(graph, node))

BfsOrder(g) == BfsLoop(g.heap, <<RootRef>>, {g.heap[RootRef].address}, <<>>)

\* the scan of find_live_node: for node in graph[::-1], with Python's
\* short-circuit `or`.  Result: the address found (None when the network is
\* full) and whether check_is_parent never returned.
RECURSIVE ScanFirst(_, _, _, _, _)
ScanFirst(g, graph, i, sender, sender_node) ==
    IF i = 0 THEN [address |-> None, hang |-> FALSE]
    ELSE LET n == g.heap[graph[i]]
             anc == IF sender_node # NoneRef
                    THEN check_is_parent(g.heap, graph[i], sender_node)
                    ELSE "False"
         IN IF n.level = MaxLevel \/ Len(n.children) = MaxChildren \/ ~n.is_alive
            THEN ScanFirst(g, graph, i - 1, sender, sender_node)
            ELSE IF anc = "loop" THEN [address |-> None, hang |-> TRUE]
            ELSE IF anc = "True" \/ sender = n.address
            THEN ScanFirst(g, graph, i - 1, sender, sender_node)
            ELSE [address |-> n.address, hang |-> FALSE]

\* find_live_node without the sub-tree test (a plausible slip)
find_live_node_no_subtree_check(g, sender) ==
    LET graph == BfsOrder(g)
    IN ScanFirst(g, graph, Len(graph), sender, NoneRef)

\* NetworkGraph.find_live_node
find_live_node(g, sender) ==
    LET graph == BfsOrder(g)
    IN ScanFirst(g, graph, Len(graph), sender, find_node(g, sender))

\* NetworkGraph.add_node.  exc: the call raised (father_node is None, so
\* `father_node == self.root` reads None.address) after set_parent(None).
add_node(g, ip, port, father_address) ==
    LET father_node == find_node(g, father_address)
        new_node_address == <<parse_ip(ip), port>>
        old_graph_node == find_node(g, new_node_address)
        level == IF NodeEq(g.heap, father_node, RootRef) THEN 1
                 ELSE g.heap[father_node].level + 1
    IN IF old_graph_node # NoneRef
       THEN IF father_node = NoneRef
            THEN [g |-> [g EXCEPT !.heap[old_graph_node].parent = NoneRef,
                                  !.heap[old_graph_node].is_alive = TRUE],
                  exc |-> TRUE]
            ELSE [g |-> [g EXCEPT !.heap =
                           add_child([g.heap EXCEPT ![old_graph_node].parent = father_node,
                                                    ![old_graph_node].is_alive = TRUE,
                                                    ![old_graph_node].level = level],
                                     father_node, old_graph_node)],
                  exc |-> FALSE]
       ELSE IF father_node = NoneRef
            THEN [g |-> g, exc |-> TRUE]
            ELSE LET new_node == Len(g.heap) + 1
                     fresh == [GraphNode(new_node_address) EXCEPT
                                  !.parent = father_node, !.is_alive = TRUE,
                                  !.level = level]
                 IN [g |-> [heap |-> add_child(Append(g.heap, fresh), father_node, new_node),
                            nodes |-> Append(g.nodes, new_node)],
                     exc |-> FALSE]

\* the nodes reached from `frontier` along children lists
RECURSIVE ReachFrom(_, _, _)
ReachFrom(heap, frontier, seen) ==
    LET next == UNION {{heap[n].children[i] : i \in 1..Len(heap[n].children)} :
                          n \in frontier} \ seen
    IN IF next = {} THEN seen ELSE ReachFrom(heap, next, seen \cup next)

\* is some node reached from `node` along children lists on a cycle of
\* children lists?
ChildrenCycleFrom(heap, node) ==
    \E n \in ReachFrom(heap, {node}, {node}) :
        n \in ReachFrom(heap, {n}, {})

\* NetworkGraph.turn_off_subtree: a work list over the children lists that
\* marks every node it reaches not-alive.  It keeps no visited set, so it
\* ends exactly when no cycle of children lists is reached from `node`;
\* otherwise the nodes are marked and the walk goes on for ever ("hang").
turn_off_subtree(heap, node) ==
    LET marked == ReachFrom(heap, {node}, {})
    IN [heap |-> [n \in 1..Len(heap) |->
                     IF n \in marked THEN [heap[n] EXCEPT !.is_alive = FALSE]
                     ELSE heap[n]],
        hang |-> ChildrenCycleFrom(heap, node)]

\* NetworkGraph.remove_node for an address of the node table.
\* exc is "hang" when turn_off_subtree never returns, "error" when
\* node.parent.children.remove(node) raises (no parent, or not in the list).
remove_node(g, node_address) ==
    LET node == find_node(g, node_address)
        off == turn_off_subtree(g.heap, node)
        parent == off.heap[node].parent
    IN IF off.hang
       THEN [g |-> [g EXCEPT !.heap = off.heap], exc |-> "hang"]
       ELSE IF parent = NoneRef \/ ~HasEq(off.heap, off.heap[parent].children, node)
       THEN [g |-> [g EXCEPT !.heap = off.heap], exc |-> "error"]
       ELSE [g |-> [heap |-> [off.heap EXCEPT ![parent].children =
                                 RemoveEq(off.heap, @, node)],
                    nodes |-> RemoveEq(off.heap, g.nodes, node)],
             exc |-> "none"]

\* NetworkGraph.keep_alive for an address of the node table
keep_alive(g, address) ==
    [g EXCEPT !.heap[find_node(g, address)].is_alive = TRUE]

(***************************************************************************)
(* The processes.  Process 0 is the root (RunRoot.py), processes 1..NPeers *)
(* are clients (RunClient.py).  Peers with an odd number have an address   *)
(* whose dotted-decimal text is shorter than its zero-padded form          *)
(* (10.0.0.x), peers with an even number one whose two forms coincide      *)
(* (192.168.100.10x).                                                      *)
(***************************************************************************)
\* client processes
NPeers == 3
\* clients at which the user types commands in the full specification
NUsers == 2

Root == 0
Peers == 1..NPeers
Procs == 0..NPeers

Ip10 == <<"1", "0", ".", "0", ".", "0", ".">>
Ip192 == <<"1", "9", "2", ".", "1", "6", "8", ".", "1", "0", "0", ".">>

\* the server_ip and server_port handed to Peer(...) by the launcher
ServerIp(p) == IF p % 2 = 1 \/ p = Root THEN Ip10 \o IntToStr(p + 1)
               ELSE Ip192 \o IntToStr(100 + p)
ServerPort(p) == IF p = Root THEN 5050 ELSE 6000 + p

\* Peer.__init__: self.address = (parse_ip(server_ip), server_port)
AddressOf == [p \in Procs |-> <<parse_ip(ServerIp(p)), ServerPort(p)>>]

Address(p) == AddressOf[p]

\* the root_address a client is started with
ROOT_ADDRESS == <<ServerIp(Root), ServerPort(Root)>>

\* the process whose TCPServer listens at an address; -1 when there is none
ProcAt(ip, port) ==
    IF \E p \in Procs : Address(p) = <<ip, port>>
    THEN CHOOSE p \in Procs : Address(p) = <<ip, port>>
    ELSE -1

VARIABLES
    reunion_mode,        \* Peer.reunion_mode: "ACCEPTANCE" or "FAILED"
    registered,          \* Peer.registered: list of SemiNode (ip, port)
    parent_address,      \* Peer.parent_address, None until attached
    children_addresses,  \* Peer.children_addresses
    nodes,               \* Stream.nodes: list of Node with its out_buff
    in_buf,              \* Stream._server_in_buf: frames not yet handled
    hello_gap,           \* last_hello_time - last_hello_back_time: "acked"
                         \* (<= 0), "pending" (<= 36 s) or "late" (> 36 s)
    daemon,              \* the reunion thread: "idle", "running", "dead", "hung"
    main,                \* the thread of Peer.run: "running", "dead", "hung"
    network_graph,       \* the root's NetworkGraph
    flush,               \* Stream.send_out_buf_messages in progress: the place
                         \* of `for node in self.nodes` (0: not in it) and
                         \* its argument only_register; and the place of
                         \* `for message in in_buff` in Peer.run: how many
                         \* messages the list iterator has given, and
                         \* whether it is exhausted (the loop has ended
                         \* and clear_in_buff is still to come); and the
                         \* advertised_address of __handle_advertise_request
                         \* between __get_neighbour and add_node (None: the
                         \* root is not there)
    budget,              \* what is left of the bounds of the model
    ev                   \* the last step taken: what it was given and had before

vars == <<reunion_mode, registered, parent_address, children_addresses, nodes,
          in_buf, hello_gap, daemon, main, network_graph, flush, budget, ev>>

(***************************************************************************)
(* Stream.py and tools/Node.py                                             *)
(***************************************************************************)
\* Node.__init__
Node(server_address, set_register) ==
    [server_ip |-> parse_ip(server_address[1]), server_port |-> server_address[2],
     is_register |-> set_register, out_buff |-> <<>>]

\* Stream.add_node: Node(None) raises and the bare except absorbs it
stream_add_node(ns, server_address, set_register_connection) ==
    IF server_address = None THEN ns
    ELSE Append(ns, Node(server_address, set_register_connection))

IsNodeFor(n, ip, port, want_register) ==
    /\ <<n.server_ip, n.server_port>> = <<parse_ip(ip), port>>
    /\ n.is_register = want_register

\* Stream.get_node_by_address: index of the first match, 0 for None
get_node_by_address(ns, ip, port, want_register) ==
    IF \E i \in 1..Len(ns) : IsNodeFor(ns[i], ip, port, want_register)
    THEN CHOOSE i \in 1..Len(ns) :
             /\ IsNodeFor(ns[i], ip, port, want_register)
             /\ \A j \in 1..(i - 1) : ~IsNodeFor(ns[j], ip, port, want_register)
    ELSE 0

\* Node.__eq__
NodeSame(a, b) ==
    /\ a.server_ip = b.server_ip
    /\ a.server_port = b.server_port
    /\ a.is_register = b.is_register

\* Stream.remove_node: self.nodes.remove(node) drops the first equal Node;
\* with None (or a Node not in the list) the bare except absorbs the error
stream_remove_node(ns, k) ==
    IF k = 0 THEN ns
    ELSE LET f == CHOOSE i \in 1..Len(ns) :
                      /\ NodeSame(ns[i], ns[k])
                      /\ \A j \in 1..(i - 1) : ~NodeSame(ns[j], ns[k])
         IN SubSeq(ns, 1, f - 1) \o SubSeq(ns, f + 1, Len(ns))

(***************************************************************************)
(* Peer.py.  A handler is an operator from the peer's state before the     *)
(* call to its state after it.  The state s of peer p is the record        *)
(*   [p, is_root, address, mode, registered, parent, children, nodes,      *)
(*    gap, daemon, graph, exc]                                             *)
(* where exc is "none", or "error" when the call raised an exception that  *)
(* nothing catches, or "hang" when it never returns.                       *)
(***************************************************************************)
Self(p) ==
    [p |-> p, is_root |-> (p = Root), address |-> Address(p),
     mode |-> reunion_mode[p], registered |-> registered[p],
     parent |-> parent_address[p], children |-> children_addresses[p],
     nodes |-> nodes[p], gap |-> hello_gap[p], daemon |-> daemon[p],
     graph |-> network_graph, exc |-> "none"]

\* Stream.add_message_to_out_buff taking the first connection to the
\* address, whatever its is_register
add_message_to_out_buff_any_connection(s, address, message, want_register) ==
    IF address = None THEN [s EXCEPT !.exc = "error"]
    ELSE LET k == IF get_node_by_address(s.nodes, address[1], address[2], TRUE) = 0
                  THEN get_node_by_address(s.nodes, address[1], address[2], FALSE)
                  ELSE IF get_node_by_address(s.nodes, address[1], address[2], FALSE) = 0
                  THEN get_node_by_address(s.nodes, address[1], address[2], TRUE)
                  ELSE IF get_node_by_address(s.nodes, address[1], address[2], TRUE)
                          < get_node_by_address(s.nodes, address[1], address[2], FALSE)
                  THEN get_node_by_address(s.nodes, address[1], address[2], TRUE)
                  ELSE get_node_by_address(s.nodes, address[1], address[2], FALSE)
         IN IF k = 0 THEN s
            ELSE [s EXCEPT !.nodes[k].out_buff = Append(@, message)]

\* Stream.add_message_to_out_buff: `ip, port = address` raises on None
add_message_to_out_buff(s, address, message, want_register) ==
    IF address = None THEN [s EXCEPT !.exc = "error"]
    ELSE LET k == get_node_by_address(s.nodes, address[1], address[2], want_register)
         IN IF k = 0 THEN s
            ELSE [s EXCEPT !.nodes[k].out_buff = Append(@, message)]

\* SemiNode(ip, port) and `SemiNode in self.registered`
SemiNode(ip, port) == <<parse_ip(ip), port>>

IsRegistered(s, semi_node) ==
    \E i \in 1..Len(s.registered) : s.registered[i] = semi_node

\* Peer.__handle_advertise_request without the test of the registered set
handle_advertise_request_unregistered(s, packet) ==
    LET sender_address == get_source_server_address(packet)
        sender_semi_node == SemiNode(sender_address[1], sender_address[2])
        found == find_live_node(s.graph, sender_address)
        advertised_address == found.address
        response == new_advertise_packet(RES, s.address, advertised_address)
        sent == add_message_to_out_buff(s, sender_address, response, TRUE)
        added == add_node(s.graph, sender_semi_node[1], sender_semi_node[2],
                          advertised_address)
    IN IF found.hang THEN [s EXCEPT !.exc = "hang"]
       ELSE IF advertised_address = None THEN [s EXCEPT !.exc = "error"]
       ELSE [sent EXCEPT !.graph = added.g,
                         !.exc = IF added.exc THEN "error" ELSE "none"]

\* Peer.__handle_advertise_request
handle_advertise_request(s, packet) ==
    LET sender_address == get_source_server_address(packet)
        sender_semi_node == SemiNode(sender_address[1], sender_address[2])
        found == find_live_node(s.graph, sender_address)
        advertised_address == found.address
        response == new_advertise_packet(RES, s.address, advertised_address)
        sent == add_message_to_out_buff(s, sender_address, response, TRUE)
        added == add_node(s.graph, sender_semi_node[1], sender_semi_node[2],
                          advertised_address)
    IN IF ~IsRegistered(s, sender_semi_node) THEN s
       ELSE IF found.hang THEN [s EXCEPT !.exc = "hang"]
       ELSE IF advertised_address = None THEN [s EXCEPT !.exc = "error"]
       ELSE [sent EXCEPT !.graph = added.g,
                         !.exc = IF added.exc THEN "error" ELSE "none"]

\* Peer.__handle_advertise_response.  Starting a reunion thread that has
\* ended raises RuntimeError.
handle_advertise_response(s, packet) ==
    LET parent_address_ == get_advertised_address(packet)
        join_packet == new_join_packet(s.address)
        s1 == [s EXCEPT !.gap = "acked", !.parent = parent_address_,
                        !.nodes = stream_add_node(@, parent_address_, FALSE)]
        s2 == add_message_to_out_buff(s1, parent_address_, join_packet, FALSE)
    IN [s2 EXCEPT !.mode = "ACCEPTANCE",
                  !.daemon = IF @ = "idle" THEN "running" ELSE @,
                  !.exc = IF s.daemon = "dead" THEN "error" ELSE "none"]

\* Peer.__handle_advertise_packet; AdvertiseType(body[:3]) raises on any
\* other tag
handle_advertise_packet(s, packet) ==
    LET advertise_type == Slice(packet.body, 0, 3)
    IN IF advertise_type \notin {REQ, RES} THEN [s EXCEPT !.exc = "error"]
       ELSE IF s.is_root /\ advertise_type = REQ
       THEN handle_advertise_request(s, packet)
       ELSE IF ~s.is_root /\ advertise_type = RES
       THEN handle_advertise_response(s, packet)
       ELSE s

\* Peer.__handle_register_packet without the test `new_node in registered`
handle_register_packet_again(s, packet) ==
    LET register_type == Slice(packet.body, 0, 3)
        new_node == SemiNode(packet.source_ip, packet.source_port)
        sender_address == get_source_server_address(packet)
        response == new_register_packet(RES, s.address, None)
        s1 == [s EXCEPT !.registered = Append(@, new_node),
                        !.nodes = stream_add_node(@, sender_address, TRUE)]
    IN IF register_type \notin {REQ, RES} THEN [s EXCEPT !.exc = "error"]
       ELSE IF s.is_root /\ register_type = REQ
       THEN add_message_to_out_buff(s1, sender_address, response, TRUE)
       ELSE s

\* Peer.__handle_register_packet
handle_register_packet(s, packet) ==
    LET register_type == Slice(packet.body, 0, 3)
        new_node == SemiNode(packet.source_ip, packet.source_port)
        sender_address == get_source_server_address(packet)
        response == new_register_packet(RES, s.address, None)
        s1 == [s EXCEPT !.registered = Append(@, new_node),
                        !.nodes = stream_add_node(@, sender_address, TRUE)]
    IN IF register_type \notin {REQ, RES} THEN [s EXCEPT !.exc = "error"]
       ELSE IF s.is_root /\ register_type = REQ
       THEN IF IsRegistered(s, new_node) THEN s
            ELSE add_message_to_out_buff(s1, sender_address, response, TRUE)
       ELSE s

\* Peer.__check_neighbour
check_neighbour(s, address) ==
    \/ \E i \in 1..Len(s.children) : s.children[i] = address
    \/ address = s.parent

\* the loop of __handle_message_packet over [*children_addresses, parent_address]
RECURSIVE ForwardMessage(_, _, _, _)
ForwardMessage(s, neighbours, sender_address, updated_packet) ==
    IF Len(neighbours) = 0 \/ s.exc # "none" THEN s
    ELSE LET a == Head(neighbours)
         IN ForwardMessage(
                IF a # None /\ a # sender_address
                THEN add_message_to_out_buff(s, a, updated_packet, FALSE)
                ELSE s,
                Tail(neighbours), sender_address, updated_packet)

\* Peer.__handle_message_packet
handle_message_packet(s, packet) ==
    LET sender_address == get_source_server_address(packet)
        updated_packet == new_message_packet(packet.body, s.address)
    IN IF check_neighbour(s, sender_address)
       THEN ForwardMessage(s, Append(s.children, s.parent), sender_address,
                           updated_packet)
       ELSE s

\* Peer.__handle_join_packet admitting registered senders only (a plausible
\* slip: the registered set lives at the root alone)
handle_join_packet_registered_only(s, packet) ==
    LET new_member_address == get_source_server_address(packet)
    IN IF ~IsRegistered(s, SemiNode(new_member_address[1], new_member_address[2]))
       THEN s
       ELSE [s EXCEPT !.nodes = stream_add_node(@, new_member_address, FALSE),
                      !.children = Append(@, new_member_address)]

\* Peer.__handle_join_packet
handle_join_packet(s, packet) ==
    LET new_member_address == get_source_server_address(packet)
    IN [s EXCEPT !.nodes = stream_add_node(@, new_member_address, FALSE),
                 !.children = Append(@, new_member_address)]

\* get_n_entries and get_addresses raise ValueError unless the entry count
\* and every port field are runs of digits
ReunionReadable(packet) ==
    /\ ValidInt(Slice(packet.body, 3, 5))
    /\ \A i \in 1..get_n_entries(packet) :
           ValidInt(Slice(packet.body, 20 + 20 * (i - 1), 25 + 20 * (i - 1)))

\* Peer.__update_last_reunion followed by Peer.__respond_to_reunion (root).
\* get_addresses()[0] and reversed_addresses[0] raise IndexError on an empty
\* list; keep_alive raises AttributeError when find_node returns None.
respond_to_reunion_hello(s, packet) ==
    LET addresses == get_addresses(packet)
        sender_address == addresses[1]
        kept == [s EXCEPT !.graph = keep_alive(s.graph, sender_address)]
        reversed_addresses == get_addresses_in_reverse(packet)
        response_packet == new_reunion_packet(RES, s.address, reversed_addresses)
    IN IF Len(addresses) = 0 THEN [s EXCEPT !.exc = "error"]
       ELSE IF find_node(s.graph, sender_address) = NoneRef
       THEN [s EXCEPT !.exc = "error"]
       ELSE IF Len(reversed_addresses) = 0 THEN [kept EXCEPT !.exc = "error"]
       ELSE add_message_to_out_buff(kept, reversed_addresses[1], response_packet, FALSE)

\* Peer.__pass_reunion_hello forwarding the path as it came (a plausible slip)
pass_reunion_hello_unchanged(s, packet) ==
    add_message_to_out_buff(
        s, s.parent, new_reunion_packet(REQ, s.address, get_addresses(packet)), FALSE)

\* Peer.__pass_reunion_hello with __format_reunion_hello_addresses_on_pass
pass_reunion_hello(s, packet) ==
    LET new_addresses == Append(get_addresses(packet), s.address)
        request_packet == new_reunion_packet(REQ, s.address, new_addresses)
    IN add_message_to_out_buff(s, s.parent, request_packet, FALSE)

\* Peer.__handle_reunion_hello_back with __pass_reunion_hello_back
handle_reunion_hello_back(s, packet) ==
    LET addresses == get_addresses(packet)
        new_addresses == Tail(addresses)
        passed_packet == new_reunion_packet(RES, s.address, new_addresses)
    IN IF Len(addresses) = 0 THEN [s EXCEPT !.exc = "error"]
       ELSE IF addresses[Len(addresses)] = s.address
       THEN [s EXCEPT !.gap = "acked"]
       ELSE IF Len(new_addresses) = 0 THEN [s EXCEPT !.exc = "error"]
       ELSE add_message_to_out_buff(s, new_addresses[1], passed_packet, FALSE)

\* Peer.__handle_reunion_packet
handle_reunion_packet(s, packet) ==
    LET reunion_type == Slice(packet.body, 0, 3)
    IN IF reunion_type \notin {REQ, RES} THEN [s EXCEPT !.exc = "error"]
       ELSE IF ~ReunionReadable(packet) THEN [s EXCEPT !.exc = "error"]
       ELSE IF s.is_root /\ reunion_type = REQ
       THEN respond_to_reunion_hello(s, packet)
       ELSE IF reunion_type = REQ
       THEN pass_reunion_hello(s, packet)
       ELSE handle_reunion_hello_back(s, packet)

\* Peer.__validate_received_packet as the source leaves it to be filled in
\* ("TODO: More conditions"), with no condition at all
validate_received_packet_any(packet) == TRUE

\* Peer.__validate_received_packet
validate_received_packet(packet) == packet.length = Len(packet.body)

\* Peer.handle_packet without the branch for ReunionMode.FAILED
handle_packet_in_any_mode(s, packet) ==
    IF ~validate_received_packet(packet) THEN s
    ELSE IF packet.packet_type = MESSAGE THEN handle_message_packet(s, packet)
    ELSE IF packet.packet_type = ADVERTISE THEN handle_advertise_packet(s, packet)
    ELSE IF packet.packet_type = JOIN THEN handle_join_packet(s, packet)
    ELSE IF packet.packet_type = REGISTER THEN handle_register_packet(s, packet)
    ELSE IF packet.packet_type = REUNION THEN handle_reunion_packet(s, packet)
    ELSE s

\* Peer.handle_packet
handle_packet(s, packet) ==
    IF ~validate_received_packet(packet) THEN s
    ELSE IF s.mode = "FAILED"
    THEN IF packet.packet_type = ADVERTISE THEN handle_advertise_packet(s, packet)
         ELSE s
    ELSE IF packet.packet_type = MESSAGE THEN handle_message_packet(s, packet)
    ELSE IF packet.packet_type = ADVERTISE THEN handle_advertise_packet(s, packet)
    ELSE IF packet.packet_type = JOIN THEN handle_join_packet(s, packet)
    ELSE IF packet.packet_type = REGISTER THEN handle_register_packet(s, packet)
    ELSE IF packet.packet_type = REUNION THEN handle_reunion_packet(s, packet)
    ELSE s

\* Peer.__register (the user command 'register')
register(s) ==
    LET register_packet == new_register_packet(REQ, s.address, ROOT_ADDRESS)
    IN add_message_to_out_buff(
           [s EXCEPT !.nodes = stream_add_node(@, ROOT_ADDRESS, TRUE)],
           ROOT_ADDRESS, register_packet, TRUE)

\* Peer.__handle_advertise_command (the user command 'advertise', and the
\* re-advertise of the reunion daemon)
handle_advertise_command(s) ==
    add_message_to_out_buff(s, ROOT_ADDRESS,
                            new_advertise_packet(REQ, s.address, None), TRUE)

\* Peer.send_broadcast_packet: the loop over
\* [*children_addresses, parent_address]; with no parent the last address is
\* None and `ip, port = address` raises
RECURSIVE BroadcastTo(_, _, _)
BroadcastTo(s, neighbours, broadcast_packet) ==
    IF Len(neighbours) = 0 \/ s.exc # "none" THEN s
    ELSE BroadcastTo(add_message_to_out_buff(s, Head(neighbours), broadcast_packet, FALSE),
                     Tail(neighbours), broadcast_packet)

send_broadcast_packet(s, broadcast_packet) ==
    BroadcastTo(s, Append(s.children, s.parent), broadcast_packet)

\* Peer.__handle_message_command for the command 'sendmessage hi'
handle_message_command(s) ==
    send_broadcast_packet(s, new_message_packet(<<"h", "i">>, s.address))

\* Peer.handle_user_interface_buffer for a buffer of at most one command
handle_user_interface_buffer(s, command) ==
    IF command = "register" THEN register(s)
    ELSE IF command = "advertise" THEN handle_advertise_command(s)
    ELSE IF command = "sendmessage" THEN handle_message_command(s)
    ELSE s

\* Peer.__run_non_root_reunion_daemon sending its Reunion Hello in the
\* failure branch as well
run_non_root_reunion_daemon_hello_always(s, late) ==
    LET packet == new_reunion_packet(REQ, s.address, <<s.address>>)
        helloed == add_message_to_out_buff(s, s.parent, packet, FALSE)
    IN IF s.gap = "late"
       THEN handle_advertise_command([helloed EXCEPT !.mode = "FAILED"])
       ELSE [helloed EXCEPT !.gap = IF late THEN "late" ELSE "pending"]

\* Peer.__run_non_root_reunion_daemon declaring the failure as soon as a
\* hello is unanswered, not after MAX_PENDING_TIME
run_non_root_reunion_daemon_impatient(s, late) ==
    IF s.gap # "acked"
    THEN handle_advertise_command([s EXCEPT !.mode = "FAILED"])
    ELSE LET packet == new_reunion_packet(REQ, s.address, <<s.address>>)
         IN [add_message_to_out_buff(s, s.parent, packet, FALSE)
                EXCEPT !.gap = IF late THEN "late" ELSE "pending"]

\* Peer.__run_non_root_reunion_daemon.  late: the hello of this pass is
\* sent more than MAX_PENDING_TIME after the last hello back.
run_non_root_reunion_daemon(s, late) ==
    IF s.gap = "late"
    THEN handle_advertise_command([s EXCEPT !.mode = "FAILED"])
    ELSE LET packet == new_reunion_packet(REQ, s.address, <<s.address>>)
         IN [add_message_to_out_buff(s, s.parent, packet, FALSE)
                EXCEPT !.gap = IF late THEN "late" ELSE "pending"]

\* Peer.__run_root_reunion_daemon taking an expired node out of the
\* registered list as well
RECURSIVE run_root_reunion_daemon_unregistering(_, _, _)
run_root_reunion_daemon_unregistering(s, i, stale) ==
    IF i > Len(s.graph.nodes) \/ s.exc # "none" THEN s
    ELSE LET a == s.graph.heap[s.graph.nodes[i]].address
             k == get_node_by_address(s.nodes, a[1], a[2], FALSE)
             r == remove_node(s.graph, a)
         IN IF a = s.address \/ a \notin stale
            THEN run_root_reunion_daemon_unregistering(s, i + 1, stale)
            ELSE run_root_reunion_daemon_unregistering(
                     [s EXCEPT !.nodes = stream_remove_node(@, k),
                               !.registered = SelectSeq(@, LAMBDA x : x # a),
                               !.graph = r.g, !.exc = r.exc],
                     i + 1, stale)

\* Peer.__run_root_reunion_daemon: `for graph_node in graph_nodes` walks the
\* node table by position while remove_node shortens it.  stale: the
\* addresses whose last hello is more than MAX_HELLO_INTERVAL old.
RECURSIVE run_root_reunion_daemon(_, _, _)
run_root_reunion_daemon(s, i, stale) ==
    IF i > Len(s.graph.nodes) \/ s.exc # "none" THEN s
    ELSE LET a == s.graph.heap[s.graph.nodes[i]].address
             k == get_node_by_address(s.nodes, a[1], a[2], FALSE)
             r == remove_node(s.graph, a)
         IN IF a = s.address \/ a \notin stale
            THEN run_root_reunion_daemon(s, i + 1, stale)
            ELSE run_root_reunion_daemon(
                     [s EXCEPT !.nodes = stream_remove_node(@, k),
                               !.graph = r.g, !.exc = r.exc],
                     i + 1, stale)

\* the frames of an out_buff, as Node.send_message hands them to the socket
RECURSIVE Frames(_, _)
Frames(dest, out_buff) ==
    IF Len(out_buff) = 0 THEN <<>>
    ELSE <<[dest |-> dest, frame |-> get_buf(Head(out_buff))]>>
         \o Frames(dest, Tail(out_buff))

\* Stream.send_out_buf_messages with send_messages_to_node and
\* Node.send_message: `for node in self.nodes` walks the list by position
\* while a failed send removes the node.  A send fails when no server
\* listens at the node's address.  Result: the nodes left and the frames
\* sent, in order.
RECURSIVE send_out_buf_messages(_, _, _, _)
send_out_buf_messages(ns, i, only_register, sent) ==
    IF i > Len(ns) THEN [nodes |-> ns, sent |-> sent]
    ELSE LET n == ns[i]
             dest == ProcAt(n.server_ip, n.server_port)
         IN IF (only_register /\ ~n.is_register) \/ Len(n.out_buff) = 0
            THEN send_out_buf_messages(ns, i + 1, only_register, sent)
            ELSE IF dest = -1
            THEN send_out_buf_messages(stream_remove_node(ns, i), i + 1,
                                       only_register, sent)
            ELSE send_out_buf_messages([ns EXCEPT ![i].out_buff = <<>>], i + 1,
                                       only_register,
                                       sent \o Frames(dest, n.out_buff))

\* the place at or after i of the first node that send_out_buf_messages hands
\* to send_messages_to_node with something in its out_buff; 0 when the loop
\* ends without one
RECURSIVE NextSending(_, _, _)
NextSending(ns, i, only_register) ==
    IF i > Len(ns) THEN 0
    ELSE IF (only_register /\ ~ns[i].is_register) \/ Len(ns[i].out_buff) = 0
    THEN NextSending(ns, i + 1, only_register)
    ELSE i

\* Stream.send_messages_to_node with an except clause that only logs: the
\* node stays, and with it the packets of its out_buff
send_messages_to_node_keeping(ns, i, reply, delivered) ==
    IF reply = "error"
    THEN [nodes |-> ns, sent |-> SubSeq(ns[i].out_buff, 1, delivered)]
    ELSE [nodes |-> [ns EXCEPT ![i].out_buff = <<>>],
          sent |-> ns[i].out_buff]

\* Stream.send_messages_to_node on the node at place i, with Node.send_message:
\* every packet of the out_buff is handed to the socket; `reply` is what the
\* socket does ("ACK", "other": another reply, "error": it raises after
\* `delivered` packets).  A reply other than ACK is logged and nothing more;
\* an exception makes the bare except call remove_node.
send_messages_to_node(ns, i, reply, delivered) ==
    IF reply = "error"
    THEN [nodes |-> stream_remove_node(ns, i),
          sent |-> SubSeq(ns[i].out_buff, 1, delivered)]
    ELSE [nodes |-> [ns EXCEPT ![i].out_buff = <<>>],
          sent |-> ns[i].out_buff]

\* the callback of Stream.__init__ at every receiver: append to its in_buf
RECURSIVE Received(_, _)
Received(inb, sent) ==
    IF Len(sent) = 0 THEN inb
    ELSE Received([inb EXCEPT ![Head(sent).dest] = Append(@, Head(sent).frame)],
                  Tail(sent))

(***************************************************************************)
(* The state machine.                                                      *)
(***************************************************************************)
Init ==
    /\ reunion_mode = [p \in Procs |-> "ACCEPTANCE"]
    /\ registered = [p \in Procs |-> <<>>]
    /\ parent_address = [p \in Procs |-> None]
    /\ children_addresses = [p \in Procs |-> <<>>]
    /\ nodes = [p \in Procs |-> <<>>]
    /\ in_buf = [p \in Procs |-> <<>>]
    /\ hello_gap = [p \in Procs |-> "acked"]
    /\ daemon = [p \in Procs |-> IF p = Root THEN "running" ELSE "idle"]
    /\ main = [p \in Procs |-> "running"]
    /\ network_graph = NetworkGraph(Address(Root))
    /\ flush = [p \in Procs |-> [node |-> 0, only_register |-> FALSE, message |-> 0,
                             exhausted |-> FALSE, advertised |-> None]]
    /\ budget = [commands |-> [p \in Peers |-> MaxCommands],
                 readvertise |-> MaxReadvertise, expire |-> MaxExpire,
                 hello |-> MaxHello, env |-> MaxEnvFrames, calls |-> MaxCalls,
                 peer |-> MaxPeerFrames, frames |-> MaxFlushFrames,
                 failures |-> MaxSendFailures]
    /\ ev = [op |-> "init"]

\* the peer's fields after a handler returned s
Store(p, s) ==
    /\ reunion_mode' = [reunion_mode EXCEPT ![p] = s.mode]
    /\ registered' = [registered EXCEPT ![p] = s.registered]
    /\ parent_address' = [parent_address EXCEPT ![p] = s.parent]
    /\ children_addresses' = [children_addresses EXCEPT ![p] = s.children]
    /\ hello_gap' = [hello_gap EXCEPT ![p] = s.gap]
    /\ network_graph' = s.graph

ThreadAfter(exc) == IF exc = "error" THEN "dead"
                    ELSE IF exc = "hang" THEN "hung" ELSE "running"

\* One iteration of `for message in in_buff` of Peer.run: parse_buffer and
\* handle_packet on the oldest frame.  PacketType(packet_type) raises on an
\* unknown type code.  An exception ends the thread of Peer.run.
HandlePacket(p) ==
    /\ main[p] = "running"
    /\ Len(in_buf[p]) > 0
    /\ LET packet == parse_buffer(Head(in_buf[p]))
           s == Self(p)
           known == packet.packet_type \in {REGISTER, ADVERTISE, JOIN, MESSAGE, REUNION}
           r == IF known THEN handle_packet(s, packet) ELSE [s EXCEPT !.exc = "error"]
       IN /\ (packet.packet_type = REUNION /\ ReunionReadable(packet))
                 => get_n_entries(packet) <= MaxPath
          /\ Store(p, r)
          /\ nodes' = [nodes EXCEPT ![p] = r.nodes]
          /\ daemon' = [daemon EXCEPT ![p] = r.daemon]
          /\ main' = [main EXCEPT ![p] = ThreadAfter(r.exc)]
          /\ in_buf' = [in_buf EXCEPT ![p] = Tail(@)]
          /\ ev' = [op |-> "handle_packet", p |-> p, packet |-> packet, pre |-> s,
                    exc |-> r.exc]
    /\ UNCHANGED <<flush, budget>>

\* the command the user types next at peer p
Commands(p) ==
    {"none"}
    \cup (IF p \in 1..NUsers /\ budget.commands[p] > 0
          THEN {IF budget.commands[p] = MaxCommands THEN "register" ELSE "advertise"}
          ELSE {})

HasOutput(ns) == \E i \in 1..Len(ns) : Len(ns[i].out_buff) > 0

\* The rest of an iteration of Peer.run, once every frame of the in_buf is
\* handled: clear_in_buff, handle_user_interface_buffer, send_out_buf_messages.
\* (An iteration with no command and nothing to send changes nothing.)
MainLoopPass(p) ==
    /\ main[p] = "running"
    /\ Len(in_buf[p]) = 0
    /\ \E command \in Commands(p) :
         LET s == Self(p)
             r == handle_user_interface_buffer(s, command)
             out == send_out_buf_messages(r.nodes, 1, r.mode = "FAILED", <<>>)
         IN /\ command # "none" \/ HasOutput(nodes[p])
            /\ Store(p, r)
            /\ nodes' = [nodes EXCEPT ![p] = out.nodes]
            /\ in_buf' = Received(in_buf, out.sent)
            /\ budget' = IF command = "none" THEN budget
                         ELSE [budget EXCEPT !.commands[p] = @ - 1]
            /\ ev' = [op |-> "main_loop", p |-> p, command |-> command, pre |-> s,
                      sent |-> out.sent]
    /\ UNCHANGED <<daemon, main, flush>>

\* One pass of Peer.run_reunion_daemon at a client
NonRootReunionDaemon(p) ==
    /\ p # Root
    /\ daemon[p] = "running"
    /\ IF hello_gap[p] = "late" THEN budget.readvertise > 0 ELSE budget.hello > 0
    /\ \E late \in (IF hello_gap[p] = "late" THEN {TRUE} ELSE BOOLEAN) :
         LET s == Self(p)
             r == run_non_root_reunion_daemon(s, late)
         IN /\ Store(p, r)
            /\ nodes' = [nodes EXCEPT ![p] = r.nodes]
            /\ daemon' = [daemon EXCEPT ![p] = ThreadAfter(r.exc)]
            /\ budget' = IF hello_gap[p] = "late"
                         THEN [budget EXCEPT !.readvertise = @ - 1]
                         ELSE [budget EXCEPT !.hello = @ - 1]
            /\ ev' = [op |-> "reunion_daemon", p |-> p, late |-> late, pre |-> s,
                      exc |-> r.exc]
    /\ UNCHANGED <<in_buf, main, flush>>

\* the addresses of the node table
TableAddresses(g) == {g.heap[g.nodes[i]].address : i \in 1..Len(g.nodes)}

\* One pass of Peer.run_reunion_daemon at the root in which some node's
\* last hello is too old
RootReunionDaemon ==
    /\ daemon[Root] = "running"
    /\ budget.expire > 0
    /\ \E stale \in (SUBSET (TableAddresses(network_graph) \ {Address(Root)})) \ {{}} :
         LET s == Self(Root)
             r == run_root_reunion_daemon(s, 1, stale)
         IN /\ Store(Root, r)
            /\ nodes' = [nodes EXCEPT ![Root] = r.nodes]
            /\ daemon' = [daemon EXCEPT ![Root] = ThreadAfter(r.exc)]
            /\ ev' = [op |-> "root_daemon", p |-> Root, stale |-> stale, pre |-> s,
                      exc |-> r.exc]
    /\ budget' = [budget EXCEPT !.expire = @ - 1]
    /\ UNCHANGED <<in_buf, main, flush>>

\* The whole system: the root and the clients, the user typing at the first
\* NUsers clients.
Next ==
    \/ \E p \in Procs : HandlePacket(p)
    \/ \E p \in Procs : MainLoopPass(p)
    \/ \E p \in Peers : NonRootReunionDaemon(p)

Spec == Init /\ [][Next]_vars

(***************************************************************************)
(* The root on its own: the frames that clients send it are inputs, and    *)
(* the frames it sends leave the model.                                    *)
(***************************************************************************)
\* the frames a client at `sender` sends the root: its Register-Request, its
\* Advertise-Request, and the Reunion-Hello it originates or forwards
ClientFrames(sender) ==
    {get_buf(new_register_packet(REQ, Address(sender), ROOT_ADDRESS)),
     get_buf(new_advertise_packet(REQ, Address(sender), None))}
    \cup {get_buf(new_reunion_packet(REQ, Address(sender), <<Address(sender)>>))}
    \cup {get_buf(new_reunion_packet(REQ, Address(sender),
                                     <<Address(origin), Address(sender)>>)) :
              origin \in Peers \ {sender}}

\* the callback of Stream.__init__ at the root, for a frame of a client
RootReceives ==
    /\ budget.env > 0
    /\ Len(in_buf[Root]) = 0
    /\ \E sender \in Peers : \E frame \in ClientFrames(sender) :
         /\ in_buf' = [in_buf EXCEPT ![Root] = Append(@, frame)]
         /\ ev' = [op |-> "receive", p |-> Root, frame |-> frame]
    /\ budget' = [budget EXCEPT !.env = @ - 1]
    /\ UNCHANGED <<flush, reunion_mode, registered, parent_address, children_addresses,
                   nodes, hello_gap, daemon, main, network_graph>>

\* MainLoopPass of the root, the frames sent leaving the model
RootSends ==
    /\ main[Root] = "running"
    /\ Len(in_buf[Root]) = 0
    /\ HasOutput(nodes[Root])
    /\ LET s == Self(Root)
           out == send_out_buf_messages(s.nodes, 1, s.mode = "FAILED", <<>>)
       IN /\ nodes' = [nodes EXCEPT ![Root] = out.nodes]
          /\ ev' = [op |-> "main_loop", p |-> Root, command |-> "none", pre |-> s,
                    sent |-> out.sent]
    /\ UNCHANGED <<flush, reunion_mode, registered, parent_address, children_addresses,
                   in_buf, hello_gap, daemon, main, network_graph, budget>>

NextRoot ==
    \/ RootReceives
    \/ HandlePacket(Root)
    \/ RootSends
    \/ RootReunionDaemon

SpecRoot == Init /\ [][NextRoot]_vars

(***************************************************************************)
(* One peer on its own, the root or a client: whatever frames its server   *)
(* socket can be sent are inputs, those of every packet type and those     *)
(* whose length field is wrong included; the frames it sends leave the     *)
(* model.                                                                  *)
(***************************************************************************)
\* the peers watched on their own, and the processes that send them frames
Observed == {Root, 1}

SendersTo(o) == IF o = Root THEN {1, 2} ELSE {Root, 2}

\* the frames the packet builders give a process at `sender`; Advertise
\* Responses come from the root
BuiltFrames(o, sender) ==
    {get_buf(new_register_packet(REQ, Address(sender), ROOT_ADDRESS)),
     get_buf(new_advertise_packet(REQ, Address(sender), None)),
     get_buf(new_join_packet(Address(sender))),
     get_buf(new_message_packet(<<"h", "i">>, Address(sender))),
     get_buf(new_reunion_packet(REQ, Address(sender), <<Address(sender)>>))}
    \cup (IF sender = Root /\ o # Root
          THEN {get_buf(new_advertise_packet(RES, Address(sender), Address(n))) :
                    n \in SendersTo(o)}
          ELSE {})

\* a frame whose length field is one more than the length of its body
WrongLength(frame) ==
    [frame EXCEPT !.header = SubSeq(@, 1, 4)
                             \o U32(FromU32(SubSeq(@, 5, 8)) + 1)
                             \o SubSeq(@, 9, 20)]

\* a frame whose type field holds a code that is no member of PacketType
WrongType(frame) ==
    [frame EXCEPT !.header = SubSeq(@, 1, 2) \o U16(UnknownType) \o SubSeq(@, 5, 20)]

\* a frame whose body starts with three characters that are neither REQ nor RES
WrongTag(frame) ==
    [frame EXCEPT !.body = <<"X", "X", "X">> \o SubSeq(@, 4, Len(@))]

\* the garbled frames a process at `sender` can put on the wire: a Join with
\* an unknown type code, and a Register, an Advertise and a Reunion packet
\* with a garbled tag
Garbled(sender) ==
    {WrongType(get_buf(new_join_packet(Address(sender)))),
     WrongTag(get_buf(new_register_packet(REQ, Address(sender), ROOT_ADDRESS))),
     WrongTag(get_buf(new_advertise_packet(REQ, Address(sender), None))),
     WrongTag(get_buf(new_reunion_packet(REQ, Address(sender), <<Address(sender)>>)))}

PeerFrames(o) ==
    UNION {BuiltFrames(o, sender) : sender \in SendersTo(o)}
    \cup {WrongLength(frame) : frame \in BuiltFrames(o, IF o = Root THEN 2 ELSE Root)}
    \cup Garbled(IF o = Root THEN 2 ELSE Root)

\* the callback of Stream.__init__ at peer o
PeerReceives(o) ==
    /\ budget.peer > 0
    /\ Len(in_buf[o]) = 0
    /\ \E frame \in PeerFrames(o) :
         /\ in_buf' = [in_buf EXCEPT ![o] = Append(@, frame)]
         /\ ev' = [op |-> "receive", p |-> o, frame |-> frame]
    /\ budget' = [budget EXCEPT !.peer = @ - 1]
    /\ UNCHANGED <<flush, reunion_mode, registered, parent_address, children_addresses,
                   nodes, hello_gap, daemon, main, network_graph>>

\* MainLoopPass of peer o, the frames sent leaving the model
PeerSends(o) ==
    /\ main[o] = "running"
    /\ Len(in_buf[o]) = 0
    /\ LET s == Self(o)
           out == send_out_buf_messages(s.nodes, 1, s.mode = "FAILED", <<>>)
       IN /\ out.nodes # s.nodes
          /\ nodes' = [nodes EXCEPT ![o] = out.nodes]
          /\ ev' = [op |-> "main_loop", p |-> o, command |-> "none", pre |-> s,
                    sent |-> out.sent]
    /\ UNCHANGED <<flush, reunion_mode, registered, parent_address, children_addresses,
                   in_buf, hello_gap, daemon, main, network_graph, budget>>

\* a behaviour watches one peer: the one its first step is about
Watched(o) == IF ev.op = "init" THEN TRUE ELSE ev.p = o

NextPeer ==
    \/ \E o \in Observed : Watched(o) /\ PeerReceives(o)
    \/ \E o \in Observed : Watched(o) /\ HandlePacket(o)
    \/ \E o \in Observed : Watched(o) /\ PeerSends(o)
    \/ \E o \in Observed : Watched(o) /\ NonRootReunionDaemon(o)

SpecPeer == Init /\ [][NextPeer]_vars

(***************************************************************************)
(* Sending, step by step: one peer, the root or a client, with the two     *)
(* threads of Peer interleaved.  The thread of Peer.run evaluates          *)
(* `self.reunion_mode == ReunionMode.FAILED`, then walks Stream.nodes one  *)
(* node at a time; the reunion thread runs between any two of these        *)
(* steps.  What a socket answers to a send is an input.                    *)
(***************************************************************************)
\* the frames that build the peer's neighbourhood
FlushFrames(o) ==
    IF o = Root
    THEN {get_buf(new_register_packet(REQ, Address(c), ROOT_ADDRESS)) : c \in {1, 2}}
         \cup {get_buf(new_advertise_packet(REQ, Address(c), None)) : c \in {1, 2}}
         \cup {get_buf(new_join_packet(Address(2)))}
    ELSE {get_buf(new_advertise_packet(RES, Address(Root), Address(n))) :
              n \in SendersTo(o)}
         \cup {get_buf(new_join_packet(Address(2))),
               get_buf(new_message_packet(<<"h", "i">>, Address(2)))}

\* the callback of Stream.__init__ at peer o
FlushReceives(o) ==
    /\ budget.frames > 0
    /\ Len(in_buf[o]) = 0
    /\ \E frame \in FlushFrames(o) :
         /\ in_buf' = [in_buf EXCEPT ![o] = Append(@, frame)]
         /\ ev' = [op |-> "receive", p |-> o, frame |-> frame]
    /\ budget' = [budget EXCEPT !.frames = @ - 1]
    /\ UNCHANGED <<flush, reunion_mode, registered, parent_address, children_addresses,
                   nodes, hello_gap, daemon, main, network_graph>>

\* Peer.run between two steps of its loops
MainIdle(o) == main[o] = "running" /\ flush[o].node = 0

\* the command 'sendmessage hi' typed at a client (the root starts no
\* UserInterface), counted with the frames
TypedMessages(o) ==
    IF o # Root /\ budget.frames > 0 THEN {"sendmessage"} ELSE {}

\* Peer.run after the frames: clear_in_buff, handle_user_interface_buffer,
\* and the call send_out_buf_messages(self.reunion_mode == FAILED) up to its
\* first send
FlushBegin(o) ==
    /\ MainIdle(o)
    /\ Len(in_buf[o]) = 0
    /\ \E command \in Commands(o) \cup TypedMessages(o) :
         LET s == Self(o)
             r == handle_user_interface_buffer(s, command)
             only_register == (r.mode = "FAILED")
         IN /\ command # "none" \/ HasOutput(nodes[o])
            /\ Store(o, r)
            /\ nodes' = [nodes EXCEPT ![o] = r.nodes]
            /\ main' = [main EXCEPT ![o] = ThreadAfter(r.exc)]
            /\ flush' = [flush EXCEPT ![o] =
                            [node |-> IF r.exc = "none"
                                      THEN NextSending(r.nodes, 1, only_register)
                                      ELSE 0,
                             only_register |-> only_register,
                             message |-> flush[o].message,
                             exhausted |-> flush[o].exhausted,
                             advertised |-> flush[o].advertised]]
            /\ budget' = IF command = "none" THEN budget
                         ELSE IF command = "sendmessage"
                         THEN [budget EXCEPT !.frames = @ - 1]
                         ELSE [budget EXCEPT !.commands[o] = @ - 1]
            /\ ev' = [op |-> "flush_begin", p |-> o, command |-> command, pre |-> s,
                      exc |-> r.exc]
    /\ UNCHANGED <<in_buf, daemon>>

\* what the socket of a Node does on send: see send_messages_to_node
Replies(out_buff) ==
    {[reply |-> "ACK", delivered |-> Len(out_buff)],
     [reply |-> "other", delivered |-> Len(out_buff)]}
    \cup {[reply |-> "error", delivered |-> d] : d \in 0..(Len(out_buff) - 1)}

\* one iteration of `for node in self.nodes` that sends: the list is walked
\* by position, so after a removal the node that moved into this place is
\* passed over
FlushNode(o) ==
    /\ main[o] = "running"
    /\ flush[o].node > 0
    /\ LET i == flush[o].node
           s == Self(o)
       IN \E socket \in Replies(nodes[o][i].out_buff) :
            LET r == send_messages_to_node(nodes[o], i, socket.reply, socket.delivered)
            IN /\ nodes' = [nodes EXCEPT ![o] = r.nodes]
               /\ flush' = [flush EXCEPT ![o].node =
                               NextSending(r.nodes, i + 1, flush[o].only_register)]
               /\ ev' = [op |-> "flush_node", p |-> o, pre |-> s, node |-> i,
                         reply |-> socket.reply, sent |-> r.sent,
                         only_register |-> flush[o].only_register]
    /\ UNCHANGED <<reunion_mode, registered, parent_address, children_addresses,
                   in_buf, hello_gap, daemon, main, network_graph, budget>>

NextFlush ==
    \/ \E o \in Observed : Watched(o) /\ FlushReceives(o)
    \/ \E o \in Observed : Watched(o) /\ MainIdle(o) /\ HandlePacket(o)
    \/ \E o \in Observed : Watched(o) /\ FlushBegin(o)
    \/ \E o \in Observed : Watched(o) /\ FlushNode(o)
    \/ \E o \in Observed : Watched(o) /\ NonRootReunionDaemon(o)

SpecFlush == Init /\ [][NextFlush]_vars

(***************************************************************************)
(* The inbox, step by step: Stream._server_in_buf is one list, appended to *)
(* by the callback in the thread of the TCPServer and walked and cleared   *)
(* by Peer.run, with no lock.  read_in_buf returns the list itself, so the *)
(* iterator of `for message in in_buff` sees what the callback appends     *)
(* until it finds no message at its place; what is appended between that   *)
(* and clear_in_buff is in the list when it is cleared.                    *)
(***************************************************************************)
\* the callback of Stream.__init__ at peer o, at any place of Peer.run
InboxReceives(o) ==
    /\ budget.frames > 0
    /\ \E frame \in FlushFrames(o) :
         /\ in_buf' = [in_buf EXCEPT ![o] = Append(@, frame)]
         /\ ev' = [op |-> "receive", p |-> o, frame |-> frame]
    /\ budget' = [budget EXCEPT !.frames = @ - 1]
    /\ UNCHANGED <<flush, reunion_mode, registered, parent_address, children_addresses,
                   nodes, hello_gap, daemon, main, network_graph>>

\* one turn of `for message in in_buff` that finds a message at the place of
\* the iterator: parse_buffer and handle_packet
InboxNext(o) ==
    /\ main[o] = "running"
    /\ ~flush[o].exhausted
    /\ flush[o].message < Len(in_buf[o])
    /\ LET place == flush[o].message + 1
           packet == parse_buffer(in_buf[o][place])
           s == Self(o)
           known == packet.packet_type \in {REGISTER, ADVERTISE, JOIN, MESSAGE, REUNION}
           r == IF known THEN handle_packet(s, packet) ELSE [s EXCEPT !.exc = "error"]
       IN /\ Store(o, r)
          /\ nodes' = [nodes EXCEPT ![o] = r.nodes]
          /\ daemon' = [daemon EXCEPT ![o] = r.daemon]
          /\ main' = [main EXCEPT ![o] = ThreadAfter(r.exc)]
          /\ flush' = [flush EXCEPT ![o].message = place]
          /\ ev' = [op |-> "handle_packet", p |-> o, packet |-> packet, pre |-> s,
                    exc |-> r.exc, place |-> place, frame |-> in_buf[o][place]]
    /\ UNCHANGED <<in_buf, budget>>

\* the turn of `for message in in_buff` that finds no message at the place
\* of the iterator: the loop ends
InboxEnd(o) ==
    /\ main[o] = "running"
    /\ ~flush[o].exhausted
    /\ flush[o].message = Len(in_buf[o])
    /\ Len(in_buf[o]) > 0
    /\ flush' = [flush EXCEPT ![o].exhausted = TRUE]
    /\ ev' = [op |-> "loop_end", p |-> o, in_buf |-> in_buf[o]]
    /\ UNCHANGED <<reunion_mode, registered, parent_address, children_addresses,
                   nodes, in_buf, hello_gap, daemon, main, network_graph, budget>>

\* Peer.run after the loop: clear_in_buff, handle_user_interface_buffer with
\* no command typed, send_out_buf_messages, the frames sent leaving the
\* model; the next `for message in in_buff` starts at the first place
InboxClear(o) ==
    /\ main[o] = "running"
    /\ flush[o].exhausted
    /\ LET s == Self(o)
           out == send_out_buf_messages(s.nodes, 1, s.mode = "FAILED", <<>>)
       IN /\ in_buf' = [in_buf EXCEPT ![o] = <<>>]
          /\ nodes' = [nodes EXCEPT ![o] = out.nodes]
          /\ flush' = [flush EXCEPT ![o].message = 0, ![o].exhausted = FALSE]
          /\ ev' = [op |-> "clear_in_buff", p |-> o, pre |-> s, sent |-> out.sent,
                    in_buf |-> in_buf[o], given |-> flush[o].message]
    /\ UNCHANGED <<reunion_mode, registered, parent_address, children_addresses,
                   hello_gap, daemon, main, network_graph, budget>>

NextInbox ==
    \/ \E o \in Observed : Watched(o) /\ InboxReceives(o)
    \/ \E o \in Observed : Watched(o) /\ InboxNext(o)
    \/ \E o \in Observed : Watched(o) /\ InboxEnd(o)
    \/ \E o \in Observed : Watched(o) /\ InboxClear(o)

SpecInbox == Init /\ [][NextInbox]_vars

(***************************************************************************)
(* Placing and attaching, step by step: the root with its two threads.     *)
(* Peer.__handle_advertise_request reads the graph in __get_neighbour and  *)
(* writes it in add_node; the reunion thread runs                          *)
(* __run_root_reunion_daemon on the same NetworkGraph with no lock, so a   *)
(* pass of it can come between the two.                                    *)
(***************************************************************************)
\* the frames of clients 1 and 2 that ask the root for something
RequestFrames ==
    {get_buf(new_register_packet(REQ, Address(c), ROOT_ADDRESS)) : c \in {1, 2}}
    \cup {get_buf(new_advertise_packet(REQ, Address(c), None)) : c \in {1, 2}}

\* the callback of Stream.__init__ at the root
AttachReceives ==
    /\ budget.env > 0
    /\ Len(in_buf[Root]) = 0
    /\ \E frame \in RequestFrames :
         /\ in_buf' = [in_buf EXCEPT ![Root] = Append(@, frame)]
         /\ ev' = [op |-> "receive", p |-> Root, frame |-> frame]
    /\ budget' = [budget EXCEPT !.env = @ - 1]
    /\ UNCHANGED <<flush, reunion_mode, registered, parent_address, children_addresses,
                   nodes, hello_gap, daemon, main, network_graph>>

\* the frame at the head of the root's in_buf takes handle_packet to
\* __handle_advertise_request, past its test of the registered list
AdvertiseRequestAtHead ==
    /\ Len(in_buf[Root]) > 0
    /\ LET packet == parse_buffer(Head(in_buf[Root]))
           sender_address == get_source_server_address(packet)
       IN /\ validate_received_packet(packet)
          /\ packet.packet_type = ADVERTISE
          /\ Slice(packet.body, 0, 3) = REQ
          /\ IsRegistered(Self(Root), SemiNode(sender_address[1], sender_address[2]))

\* handle_packet of the root for any other frame
AttachHandles ==
    /\ flush[Root].advertised = None
    /\ ~AdvertiseRequestAtHead
    /\ HandlePacket(Root)

\* Peer.__handle_advertise_request up to add_node: __get_neighbour and the
\* Advertise Response put in the out_buff
Place ==
    /\ main[Root] = "running"
    /\ flush[Root].advertised = None
    /\ AdvertiseRequestAtHead
    /\ LET packet == parse_buffer(Head(in_buf[Root]))
           s == Self(Root)
           sender_address == get_source_server_address(packet)
           found == find_live_node(s.graph, sender_address)
           advertised_address == found.address
           response == new_advertise_packet(RES, s.address, advertised_address)
           sent == add_message_to_out_buff(s, sender_address, response, TRUE)
           exc == IF found.hang THEN "hang"
                  ELSE IF advertised_address = None THEN "error" ELSE "none"
       IN /\ nodes' = [nodes EXCEPT ![Root] = IF exc = "none" THEN sent.nodes ELSE @]
          /\ main' = [main EXCEPT ![Root] = ThreadAfter(exc)]
          /\ flush' = [flush EXCEPT ![Root].advertised =
                          IF exc = "none" THEN advertised_address ELSE None]
          /\ in_buf' = [in_buf EXCEPT ![Root] = IF exc = "none" THEN @ ELSE Tail(@)]
          /\ ev' = [op |-> "place", p |-> Root, packet |-> packet, pre |-> s,
                    exc |-> exc, advertised |-> advertised_address]
    /\ UNCHANGED <<reunion_mode, registered, parent_address, children_addresses,
                   hello_gap, daemon, network_graph, budget>>

\* the rest of Peer.__handle_advertise_request: network_graph.add_node with
\* the address that __get_neighbour returned
Attach ==
    /\ main[Root] = "running"
    /\ flush[Root].advertised # None
    /\ LET packet == parse_buffer(Head(in_buf[Root]))
           s == Self(Root)
           sender_address == get_source_server_address(packet)
           sender_semi_node == SemiNode(sender_address[1], sender_address[2])
           added == add_node(s.graph, sender_semi_node[1], sender_semi_node[2],
                             flush[Root].advertised)
           exc == IF added.exc THEN "error" ELSE "none"
       IN /\ network_graph' = added.g
          /\ main' = [main EXCEPT ![Root] = ThreadAfter(exc)]
          /\ flush' = [flush EXCEPT ![Root].advertised = None]
          /\ in_buf' = [in_buf EXCEPT ![Root] = Tail(@)]
          /\ ev' = [op |-> "attach", p |-> Root, packet |-> packet, pre |-> s,
                    exc |-> exc, advertised |-> flush[Root].advertised]
    /\ UNCHANGED <<reunion_mode, registered, parent_address, children_addresses,
                   nodes, hello_gap, daemon, budget>>

\* the rest of Peer.run at the root, once every frame is handled
AttachSends == flush[Root].advertised = None /\ RootSends

NextAttach ==
    \/ AttachReceives
    \/ AttachHandles
    \/ Place
    \/ Attach
    \/ AttachSends
    \/ RootReunionDaemon

SpecAttach == Init /\ [][NextAttach]_vars

(***************************************************************************)
(* Recovery: the root and one client whose address reads the same padded   *)
(* and decoded, with the threads of both interleaved in any order.  A send *)
(* may raise MaxSendFailures times in all.                                 *)
(***************************************************************************)
HealProcs == {Root, 2}

\* Stream.send_out_buf_messages as send_out_buf_messages above, the socket
\* of the node at place `raises` raising on its first packet
RECURSIVE SendOut(_, _, _, _, _)
SendOut(ns, i, only_register, sent, raises) ==
    IF i > Len(ns) THEN [nodes |-> ns, sent |-> sent]
    ELSE LET n == ns[i]
             dest == ProcAt(n.server_ip, n.server_port)
         IN IF (only_register /\ ~n.is_register) \/ Len(n.out_buff) = 0
            THEN SendOut(ns, i + 1, only_register, sent, raises)
            ELSE IF dest = -1 \/ i = raises
            THEN SendOut(stream_remove_node(ns, i), i + 1, only_register, sent, 0)
            ELSE SendOut([ns EXCEPT ![i].out_buff = <<>>], i + 1, only_register,
                         sent \o Frames(dest, n.out_buff), raises)

\* the in_buf of a process whose Peer.run has ended is never read again
Kept(inb) == [q \in Procs |-> IF main[q] = "running" THEN inb[q] ELSE <<>>]

\* An iteration of Peer.run after the frames: clear_in_buff,
\* handle_user_interface_buffer, send_out_buf_messages
HealTick(p) ==
    /\ main[p] = "running"
    /\ Len(in_buf[p]) = 0
    /\ \E command \in Commands(p) :
         LET s == Self(p)
             r == handle_user_interface_buffer(s, command)
             only_register == (r.mode = "FAILED")
             first == NextSending(r.nodes, 1, only_register)
         IN /\ command # "none" \/ first # 0
            /\ \E raises \in {0} \cup (IF budget.failures > 0 /\ first # 0
                                       THEN {first} ELSE {}) :
                 LET out == SendOut(r.nodes, 1, only_register, <<>>, raises)
                     arrived == Kept(Received(in_buf, out.sent))
                 IN /\ \A q \in Procs : Len(arrived[q]) <= MaxInBuf
                    /\ Store(p, r)
                    /\ nodes' = [nodes EXCEPT ![p] = out.nodes]
                    /\ in_buf' = arrived
                    /\ budget' = [budget EXCEPT
                                     !.commands = IF command = "none" THEN @
                                                  ELSE [@ EXCEPT ![p] = @ - 1],
                                     !.failures = IF raises = 0 THEN @ ELSE @ - 1]
                    /\ ev' = [op |-> "main_loop", p |-> p, command |-> command,
                              pre |-> s, sent |-> out.sent, raises |-> raises]
    /\ UNCHANGED <<daemon, main, flush>>

\* the connection on which this pass of the reunion daemon enqueues
DaemonConnection(s) ==
    IF s.gap = "late"
    THEN get_node_by_address(s.nodes, ROOT_ADDRESS[1], ROOT_ADDRESS[2], TRUE)
    ELSE IF s.parent = None THEN 0
    ELSE get_node_by_address(s.nodes, s.parent[1], s.parent[2], FALSE)

\* One pass of Peer.run_reunion_daemon at a client, as often as the thread
\* lives; a pass waits for the packet of the pass before to be sent
HealDaemon(p) ==
    /\ daemon[p] = "running"
    /\ LET s == Self(p)
           k == DaemonConnection(s)
       IN /\ k # 0 => Len(s.nodes[k].out_buff) = 0
          /\ \E late \in (IF hello_gap[p] = "late" THEN {TRUE} ELSE BOOLEAN) :
               LET r == run_non_root_reunion_daemon(s, late)
               IN /\ Store(p, r)
                  /\ nodes' = [nodes EXCEPT ![p] = r.nodes]
                  /\ daemon' = [daemon EXCEPT ![p] = ThreadAfter(r.exc)]
                  /\ ev' = [op |-> "reunion_daemon", p |-> p, late |-> late,
                            pre |-> s, exc |-> r.exc]
    /\ UNCHANGED <<in_buf, main, flush, budget>>

NextHeal ==
    \/ \E p \in HealProcs : HandlePacket(p)
    \/ \E p \in HealProcs : HealTick(p)
    \/ HealDaemon(2)

SpecHeal == Init /\ [][NextHeal]_vars

(***************************************************************************)
(* The wire format on its own: a packet of a PacketFactory builder, stamped *)
(* with the address of the peer that builds it, is encoded by get_buf and  *)
(* decoded by parse_buffer.                                                *)
(***************************************************************************)
\* the paths a Reunion packet carries here
WirePaths == {<<Address(a)>> : a \in Procs}
             \cup {<<Address(a), Address(b)>> : a \in Procs, b \in Peers}

WireMessages == {<<>>, <<"h", "i">>, <<"1", ".", "5">>}

BuiltPackets ==
    UNION {
       {new_register_packet(REQ, Address(p), ROOT_ADDRESS),
        new_register_packet(RES, Address(p), None),
        new_advertise_packet(REQ, Address(p), None),
        new_join_packet(Address(p))}
       \cup {new_advertise_packet(RES, Address(p), Address(n)) : n \in Procs}
       \cup {new_message_packet(m, Address(p)) : m \in WireMessages}
       \cup {new_reunion_packet(t, Address(p), path) : t \in {REQ, RES},
                                                       path \in WirePaths}
       : p \in Procs}

InitWire ==
    /\ reunion_mode = [p \in Procs |-> "ACCEPTANCE"]
    /\ registered = [p \in Procs |-> <<>>]
    /\ parent_address = [p \in Procs |-> None]
    /\ children_addresses = [p \in Procs |-> <<>>]
    /\ nodes = [p \in Procs |-> <<>>]
    /\ in_buf = [p \in Procs |-> <<>>]
    /\ hello_gap = [p \in Procs |-> "acked"]
    /\ daemon = [p \in Procs |-> IF p = Root THEN "running" ELSE "idle"]
    /\ main = [p \in Procs |-> "running"]
    /\ network_graph = NetworkGraph(Address(Root))
    /\ flush = [p \in Procs |-> [node |-> 0, only_register |-> FALSE, message |-> 0,
                             exhausted |-> FALSE, advertised |-> None]]
    /\ budget = [commands |-> [p \in Peers |-> MaxCommands],
                 readvertise |-> MaxReadvertise, expire |-> MaxExpire,
                 hello |-> MaxHello, env |-> MaxEnvFrames, calls |-> MaxCalls,
                 peer |-> MaxPeerFrames, frames |-> MaxFlushFrames,
                 failures |-> MaxSendFailures]
    /\ \E packet \in BuiltPackets : ev = [op |-> "built", packet |-> packet]

\* Packet.get_buf, the frame arriving in the in_buf of the root
WireEncode ==
    /\ ev.op = "built"
    /\ in_buf' = [in_buf EXCEPT ![Root] = Append(@, get_buf(ev.packet))]
    /\ ev' = [op |-> "encoded", packet |-> ev.packet]
    /\ UNCHANGED <<flush, reunion_mode, registered, parent_address, children_addresses,
                   nodes, hello_gap, daemon, main, network_graph, budget>>

\* PacketFactory.parse_buffer on that frame
WireDecode ==
    /\ ev.op = "encoded"
    /\ in_buf' = [in_buf EXCEPT ![Root] = Tail(@)]
    /\ ev' = [op |-> "round_trip", packet |-> ev.packet,
              decoded |-> parse_buffer(Head(in_buf[Root]))]
    /\ UNCHANGED <<flush, reunion_mode, registered, parent_address, children_addresses,
                   nodes, hello_gap, daemon, main, network_graph, budget>>

NextWire ==
    \/ WireEncode
    \/ WireDecode

SpecWire == InitWire /\ [][NextWire]_vars

(***************************************************************************)
(* The NetworkGraph on its own: any sequence of calls of its methods, with *)
(* the arguments the docstrings allow (addresses of the clients, a father  *)
(* that is in the node table).  A call that raises or never returns ends   *)
(* the calling thread.                                                     *)
(***************************************************************************)
GraphCall(op, args, r_g, r_exc) ==
    /\ network_graph' = r_g
    /\ main' = [main EXCEPT ![Root] = ThreadAfter(r_exc)]
    /\ ev' = [op |-> op, p |-> Root, args |-> args, pre |-> network_graph,
              exc |-> r_exc,
              again |-> (ev.op = op /\ ev.args = args /\ ev.exc = "none")]
    /\ budget' = [budget EXCEPT !.calls = @ - 1]
    /\ UNCHANGED <<flush, reunion_mode, registered, parent_address, children_addresses,
                   nodes, in_buf, hello_gap, daemon>>

GraphAddNode ==
    /\ main[Root] = "running" /\ budget.calls > 0
    /\ \E a \in Peers : \E father \in TableAddresses(network_graph) :
         LET r == add_node(network_graph, Address(a)[1], Address(a)[2], father)
         IN GraphCall("add_node", <<Address(a), father>>, r.g,
                      IF r.exc THEN "error" ELSE "none")

GraphRemoveNode ==
    /\ main[Root] = "running" /\ budget.calls > 0
    /\ \E a \in TableAddresses(network_graph) \ {Address(Root)} :
         LET r == remove_node(network_graph, a)
         IN GraphCall("remove_node", <<a>>, r.g, r.exc)

GraphKeepAlive ==
    /\ main[Root] = "running" /\ budget.calls > 0
    /\ \E a \in TableAddresses(network_graph) :
         /\ ~network_graph.heap[find_node(network_graph, a)].is_alive
         /\ GraphCall("keep_alive", <<a>>, keep_alive(network_graph, a), "none")

NextGraph ==
    \/ GraphAddNode
    \/ GraphRemoveNode
    \/ GraphKeepAlive

SpecGraph == Init /\ [][NextGraph]_vars

(***************************************************************************)
(* Notions the properties are stated in.                                   *)
(***************************************************************************)
RECURSIVE Reverse(_)
Reverse(seq) == IF Len(seq) = 0 THEN <<>> ELSE Append(Reverse(Tail(seq)), Head(seq))

Last(seq) == seq[Len(seq)]

\* the last step was handle_packet at p on a valid packet of this type
Handled(p, packet_type) ==
    /\ ev.op = "handle_packet" /\ ev.p = p
    /\ ev.packet.packet_type = packet_type
    /\ ev.packet.length = Len(ev.packet.body)

Tag(packet) == Slice(packet.body, 0, 3)

\* two address texts that denote the same address
SameAddress(a, b) == a # None /\ b # None /\ parse_ip(a[1]) = parse_ip(b[1]) /\ a[2] = b[2]

\* the out_buffs of p now, against those before the last step: packet x was
\* appended to connection k and nothing else changed
EnqueuedOnly(p, k, Holds(_)) ==
    /\ Len(nodes[p]) = Len(ev.pre.nodes)
    /\ \A i \in 1..Len(nodes[p]) :
         IF i = k
         THEN /\ Len(nodes[p][i].out_buff) = Len(ev.pre.nodes[i].out_buff) + 1
              /\ SubSeq(nodes[p][i].out_buff, 1, Len(ev.pre.nodes[i].out_buff))
                    = ev.pre.nodes[i].out_buff
              /\ Holds(Last(nodes[p][i].out_buff))
              /\ [nodes[p][i] EXCEPT !.out_buff = <<>>]
                    = [ev.pre.nodes[i] EXCEPT !.out_buff = <<>>]
         ELSE nodes[p][i] = ev.pre.nodes[i]

(***************************************************************************)
(* C1.  Reunion round trip: when the Reunion-Hello of a client whose       *)
(* chain of parents is intact reaches the root, the root enqueues a        *)
(* Hello-Back that carries the whole received path reversed (the           *)
(* originator last), addressed to the first entry of the reversed path;    *)
(* a peer that is handed a Hello-Back not ending at itself strips its own  *)
(* front entry and forwards to the new front; the peer that is handed a    *)
(* Hello-Back ending at itself has the path [itself].                      *)
(***************************************************************************)
C1_IsReversedPath(x) ==
    /\ x.packet_type = REUNION /\ Tag(x) = RES
    /\ get_addresses(x) = Reverse(get_addresses(ev.packet))

C1_IsStrippedPath(x) ==
    /\ x.packet_type = REUNION /\ Tag(x) = RES
    /\ get_addresses(x) = Tail(get_addresses(ev.packet))

C1_ReunionRoundTrip ==
    /\ (/\ Handled(Root, REUNION) /\ Tag(ev.packet) = REQ
        /\ ev.pre.mode = "ACCEPTANCE"
        /\ Len(get_addresses(ev.packet)) >= 1
        /\ find_node(ev.pre.graph, get_addresses(ev.packet)[1]) # NoneRef)
       => LET to == Last(get_addresses(ev.packet))
              k == get_node_by_address(ev.pre.nodes, to[1], to[2], FALSE)
          IN /\ ev.exc = "none"
             /\ k # 0 => EnqueuedOnly(Root, k, C1_IsReversedPath)
    /\ \A p \in Peers :
         (/\ Handled(p, REUNION) /\ Tag(ev.packet) = RES
          /\ ev.pre.mode = "ACCEPTANCE"
          /\ Len(get_addresses(ev.packet)) >= 1)
         => LET path == get_addresses(ev.packet)
            IN IF Last(path) = Address(p)
               THEN Len(path) = 1 /\ hello_gap[p] = "acked"
               ELSE /\ path[1] = Address(p) /\ Len(path) >= 2
                    /\ ev.exc = "none"
                    /\ LET k == get_node_by_address(ev.pre.nodes, path[2][1],
                                                    path[2][2], FALSE)
                       IN k # 0 => EnqueuedOnly(p, k, C1_IsStrippedPath)

(***************************************************************************)
(* C2.  Hello accumulation: a client in Acceptance mode that is handed a   *)
(* Reunion-Hello has a parent and enqueues, on its connection to that      *)
(* parent and nowhere else, a Hello whose path is the received path with   *)
(* its own address appended; and the Hello the root is handed holds the    *)
(* originator first and the root's child (the sender of the frame) last,   *)
(* one entry per level where the parents have not changed meanwhile.       *)
(***************************************************************************)
C2_IsExtendedPath(x) ==
    /\ x.packet_type = REUNION /\ Tag(x) = REQ
    /\ x.length = Len(x.body)
    /\ get_addresses(x) = Append(get_addresses(ev.packet), Address(ev.p))

\* no client has been given a second parent: each typed 'advertise' at most
\* once and no reunion daemon has advertised again
C2_ParentsSettled ==
    /\ budget.readvertise = MaxReadvertise
    /\ \A q \in Peers : budget.commands[q] >= MaxCommands - 2

C2_HelloAccumulates ==
    /\ \A p \in Peers :
         (/\ Handled(p, REUNION) /\ Tag(ev.packet) = REQ
          /\ ev.pre.mode = "ACCEPTANCE")
         => /\ ev.pre.parent # None
            /\ LET k == get_node_by_address(ev.pre.nodes, ev.pre.parent[1],
                                            ev.pre.parent[2], FALSE)
               IN /\ ev.exc = "none"
                  /\ parent_address[p] = ev.pre.parent
                  /\ IF k = 0 THEN nodes[p] = ev.pre.nodes
                     ELSE /\ EnqueuedOnly(p, k, C2_IsExtendedPath)
                          /\ ~ev.pre.nodes[k].is_register
                          /\ SameAddress(<<ev.pre.nodes[k].server_ip,
                                           ev.pre.nodes[k].server_port>>,
                                         ev.pre.parent)
    /\ (Handled(Root, REUNION) /\ Tag(ev.packet) = REQ)
       => LET path == get_addresses(ev.packet)
          IN /\ Len(path) >= 1
             /\ SameAddress(Last(path), get_source_server_address(ev.packet))
             /\ \E o \in Peers : path[1] = Address(o) /\ daemon[o] # "idle"
             /\ C2_ParentsSettled =>
                  /\ parent_address[ProcAt(Last(path)[1], Last(path)[2])] = Address(Root)
                  /\ \A i \in 1..(Len(path) - 1) :
                       parent_address[ProcAt(path[i][1], path[i][2])] = path[i + 1]

\* C2's case: a client with a parent has forwarded a Hello, and the root has
\* been handed a Hello that went through two levels
C2_Witness_Forwarded ==
    /\ \E p \in Peers :
         /\ Handled(p, REUNION) /\ Tag(ev.packet) = REQ
         /\ ev.pre.mode = "ACCEPTANCE" /\ ev.pre.parent # None
         /\ get_node_by_address(ev.pre.nodes, ev.pre.parent[1], ev.pre.parent[2],
                                FALSE) # 0

C2_Witness_AtRoot ==
    /\ Handled(Root, REUNION) /\ Tag(ev.packet) = REQ
    /\ Len(get_addresses(ev.packet)) = 2
    /\ C2_ParentsSettled

(***************************************************************************)
(* The root's tree, as the properties of the NetworkGraph read it.         *)
(***************************************************************************)
Refs(g) == 1..Len(g.heap)

TableRefs(g) == {g.nodes[i] : i \in 1..Len(g.nodes)}

ChildRefs(g, n) == {g.heap[n].children[i] : i \in 1..Len(g.heap[n].children)}

\* the table's node for an address, whatever form the address is written in
NodeAt(g, a) ==
    IF \E n \in TableRefs(g) : SameAddress(g.heap[n].address, a)
    THEN CHOOSE n \in TableRefs(g) : SameAddress(g.heap[n].address, a)
    ELSE NoneRef

\* the nodes on the chain of parent references above n
RECURSIVE Above(_, _, _)
Above(g, n, seen) ==
    IF n = NoneRef \/ n \in seen THEN seen
    ELSE Above(g, g.heap[n].parent, seen \cup {n})

Ancestors(g, n) == Above(g, g.heap[n].parent, {})

\* the nodes reached from n through children lists
RECURSIVE Below(_, _, _)
Below(g, frontier, seen) ==
    IF frontier \subseteq seen THEN seen
    ELSE Below(g, UNION {ChildRefs(g, m) : m \in frontier \ seen}, seen \cup frontier)

Descendants(g, n) == Below(g, ChildRefs(g, n), {})

\* n lies in the subtree of the node with address a: a is on n's parent chain
InSubtreeOf(g, n, a) ==
    \E m \in Ancestors(g, n) : SameAddress(g.heap[m].address, a)

\* the last step was the root handling an Advertise Request of a registered
\* sender
AdvertiseRequested ==
    /\ Handled(Root, ADVERTISE) /\ Tag(ev.packet) = REQ
    /\ \E i \in 1..Len(ev.pre.registered) :
         SameAddress(ev.pre.registered[i], get_source_server_address(ev.packet))

Sender == get_source_server_address(ev.packet)

\* the address the root answered with in that step, read from the body of
\* the Advertise Response it enqueued (RES, 15 characters of ip, 5 of port);
\* None when it enqueued none
Answer ==
    LET k == get_node_by_address(ev.pre.nodes, Sender[1], Sender[2], TRUE)
    IN IF /\ k # 0 /\ Len(nodes[Root]) = Len(ev.pre.nodes)
          /\ Len(nodes[Root][k].out_buff) = Len(ev.pre.nodes[k].out_buff) + 1
          /\ Last(nodes[Root][k].out_buff).packet_type = ADVERTISE
       THEN <<Slice(Last(nodes[Root][k].out_buff).body, 3, 18),
              StrToInt(Slice(Last(nodes[Root][k].out_buff).body, 18, 23))>>
       ELSE None

(***************************************************************************)
(* C3.  When a client that is already in the node table advertises again,  *)
(* the address the root answers with is neither the client's own address   *)
(* nor the address of a node in the client's subtree.                      *)
(***************************************************************************)
C3_ReadvertiseAvoidsOwnSubtree ==
    (AdvertiseRequested /\ NodeAt(ev.pre.graph, Sender) # NoneRef /\ Answer # None)
    => /\ ~SameAddress(Answer, Sender)
       /\ \A n \in TableRefs(ev.pre.graph) :
            ev.pre.graph.heap[n].address = Answer
            => ~InSubtreeOf(ev.pre.graph, n, Sender)

(***************************************************************************)
(* C4.  As stated: for a sender that is in the node table, the answer is   *)
(* never an address on the sender's ancestor chain.                        *)
(***************************************************************************)
C4_NeverAnAncestor ==
    (AdvertiseRequested /\ NodeAt(ev.pre.graph, Sender) # NoneRef /\ Answer # None)
    => \A m \in Ancestors(ev.pre.graph, NodeAt(ev.pre.graph, Sender)) :
         ev.pre.graph.heap[m].address # Answer

(***************************************************************************)
(* C4, amended.  For a sender whose address, as the root decodes it, is    *)
(* found in the node table, the answer is never the sender's own address   *)
(* and never a node of the sender's subtree (a node whose parent chain     *)
(* passes through the sender); an ancestor of the sender may be the answer.*)
(***************************************************************************)
C4_NeverOwnSubtree ==
    (AdvertiseRequested /\ find_node(ev.pre.graph, Sender) # NoneRef /\ Answer # None)
    => /\ Answer # Sender
       /\ \E n \in {RootRef} \cup Descendants(ev.pre.graph, RootRef) :
            /\ ev.pre.graph.heap[n].address = Answer
            /\ ~InSubtreeOf(ev.pre.graph, n, Sender)

\* C4's case: a sender found in the table, with a node below it, was answered
C4_Witness ==
    /\ AdvertiseRequested /\ find_node(ev.pre.graph, Sender) # NoneRef
    /\ Answer # None
    /\ \E n \in TableRefs(ev.pre.graph) : InSubtreeOf(ev.pre.graph, n, Sender)

(***************************************************************************)
(* C5.  The root's graph has no cycle: no node of the table reaches itself *)
(* through parent references, nor through children lists.                  *)
(***************************************************************************)
C5_NoCycle ==
    \A n \in TableRefs(network_graph) :
        /\ ~(n \in Ancestors(network_graph, n))
        /\ ~(n \in Descendants(network_graph, n))

(***************************************************************************)
(* C6.  The root has level 0 and every other node of the table has the     *)
(* level of its parent plus one.                                           *)
(***************************************************************************)
C6_LevelIsParentLevelPlusOne ==
    \A n \in TableRefs(network_graph) :
        IF n = RootRef THEN network_graph.heap[n].level = 0
        ELSE /\ network_graph.heap[n].parent # NoneRef
             /\ network_graph.heap[n].level
                  = network_graph.heap[network_graph.heap[n].parent].level + 1

(***************************************************************************)
(* C7.  No node of the root's NetworkGraph, in or out of the table, ever   *)
(* holds more than two entries in its children list.                       *)
(***************************************************************************)
C7_AtMostTwoChildren ==
    \A n \in Refs(network_graph) : Len(network_graph.heap[n].children) <= 2

\* C7's case: a node was attached under a father that already held two
\* children
C7_Witness ==
    /\ ev.op = "add_node" /\ ev.exc = "none"
    /\ Len(ev.pre.heap[find_node(ev.pre, ev.args[2])].children) = 2
    /\ Len(network_graph.heap[find_node(network_graph, ev.args[2])].children) = 2

(***************************************************************************)
(* C8.  Attach is idempotent: add_node called a second time with the same  *)
(* arguments, on the graph the first call produced, leaves the node table, *)
(* every parent, children list, level and alive flag as they were.         *)
(***************************************************************************)
C8_AttachIdempotent ==
    (ev.op = "add_node" /\ ev.again)
    => /\ ev.exc = "none"
       /\ network_graph.nodes = ev.pre.nodes
       /\ \A n \in Refs(ev.pre) :
            /\ network_graph.heap[n].parent = ev.pre.heap[n].parent
            /\ network_graph.heap[n].level = ev.pre.heap[n].level
            /\ network_graph.heap[n].children = ev.pre.heap[n].children
            /\ network_graph.heap[n].is_alive = ev.pre.heap[n].is_alive

(***************************************************************************)
(* C9.  Expiring a node N of a graph without cycle marks every descendant  *)
(* of N not-alive, removes N from the node table and leaves N in no        *)
(* children list; the nodes outside N's subtree keep their alive flag and  *)
(* parent, and their children list but for N.                              *)
(***************************************************************************)
RECURSIVE Without(_, _)
Without(seq, x) ==
    IF Len(seq) = 0 THEN <<>>
    ELSE IF Head(seq) = x THEN Without(Tail(seq), x)
    ELSE <<Head(seq)>> \o Without(Tail(seq), x)

Acyclic(g) ==
    \A n \in TableRefs(g) : n \notin Ancestors(g, n) /\ n \notin Descendants(g, n)

C9_ExpiryRemovesSubtree ==
    (ev.op = "remove_node" /\ Acyclic(ev.pre))
    => LET N == ev.args[1]
           n == NodeAt(ev.pre, N)
           below == Descendants(ev.pre, n)
       IN /\ ev.exc = "none"
          /\ \A d \in below : ~network_graph.heap[d].is_alive
          /\ N \notin TableAddresses(network_graph)
          /\ \A m \in TableRefs(network_graph) :
               \A c \in ChildRefs(network_graph, m) :
                 network_graph.heap[c].address # N
          /\ \A m \in TableRefs(ev.pre) \ (below \cup {n}) :
               /\ network_graph.heap[m].is_alive = ev.pre.heap[m].is_alive
               /\ network_graph.heap[m].parent = ev.pre.heap[m].parent
               /\ network_graph.heap[m].children = Without(ev.pre.heap[m].children, n)

(***************************************************************************)
(* C10.  Placement is deepest-first: the answer to an Advertise Request is *)
(* the last node, in breadth-first order from the root, that is eligible   *)
(* (level below 8, fewer than two children, alive, not the sender, not     *)
(* under the sender's node when the table holds one for the address the    *)
(* request came with); with only the root and one leaf below it, a new     *)
(* client is sent to the leaf.                                             *)
(***************************************************************************)
Eligible(g, n, sender) ==
    /\ g.heap[n].level # 8
    /\ Len(g.heap[n].children) < 2
    /\ g.heap[n].is_alive
    /\ ~SameAddress(g.heap[n].address, sender)
    /\ ~\E m \in Ancestors(g, n) : g.heap[m].address = sender

C10_DeepestFirst ==
    AdvertiseRequested
    => LET g == ev.pre.graph
           order == BfsOrder(g)
           last == {i \in 1..Len(order) :
                      /\ Eligible(g, order[i], Sender)
                      /\ \A j \in (i + 1)..Len(order) : ~Eligible(g, order[j], Sender)}
       IN /\ \A i \in last : Answer = g.heap[order[i]].address
          /\ (last = {}) => Answer = None
          /\ (/\ Len(g.nodes) = 2 /\ g.heap[RootRef].children = <<g.nodes[2]>>
              /\ g.heap[g.nodes[2]].children = <<>> /\ g.heap[g.nodes[2]].is_alive
              /\ ~SameAddress(g.heap[g.nodes[2]].address, Sender))
             => Answer = g.heap[g.nodes[2]].address

(***************************************************************************)
(* C11.  End-to-end attach: an Advertise Request of a registered client to *)
(* a root whose node table holds only the root is answered with the root's *)
(* address and the client is attached under the root at level 1; a client  *)
(* handed an Advertise Response takes the advertised address as parent and *)
(* enqueues a Join on a non-registration connection to it; a peer handed a *)
(* Join, registered sender or not, then has the sender among its children  *)
(* and holds a non-registration connection to it.                          *)
(***************************************************************************)
AdvertisedInBody(packet) ==
    <<Slice(packet.body, 3, 18), StrToInt(Slice(packet.body, 18, 23))>>

C11_EndToEndAttach ==
    /\ (AdvertiseRequested /\ TableRefs(ev.pre.graph) = {RootRef})
       => /\ ev.exc = "none"
          /\ Answer = Address(Root)
          /\ LET n == NodeAt(network_graph, Sender)
             IN /\ n # NoneRef
                /\ network_graph.heap[n].parent = RootRef
                /\ network_graph.heap[n].level = 1
                /\ n \in ChildRefs(network_graph, RootRef)
    /\ \A p \in Peers :
         (Handled(p, ADVERTISE) /\ Tag(ev.packet) = RES)
         => /\ parent_address[p] = AdvertisedInBody(ev.packet)
            /\ reunion_mode[p] = "ACCEPTANCE"
            /\ \E k \in 1..Len(nodes[p]) :
                 /\ ~nodes[p][k].is_register
                 /\ SameAddress(<<nodes[p][k].server_ip, nodes[p][k].server_port>>,
                                parent_address[p])
                 /\ Len(nodes[p][k].out_buff) > 0
                 /\ Last(nodes[p][k].out_buff).packet_type = JOIN
                 /\ get_source_server_address(Last(nodes[p][k].out_buff)) = Address(p)
    /\ \A t \in Procs :
         (Handled(t, JOIN) /\ ev.pre.mode = "ACCEPTANCE")
         => /\ ev.exc = "none"
            /\ \E i \in 1..Len(children_addresses[t]) :
                 SameAddress(children_addresses[t][i], Sender)
            /\ \E k \in 1..Len(nodes[t]) :
                 /\ ~nodes[t][k].is_register
                 /\ SameAddress(<<nodes[t][k].server_ip, nodes[t][k].server_port>>,
                                Sender)

\* C11's case: the root is handed the Join of a client that its graph holds
\* under the root at level 1 and that took the root as parent
C11_Witness ==
    /\ Handled(Root, JOIN)
    /\ LET n == NodeAt(network_graph, Sender)
       IN /\ n # NoneRef
          /\ network_graph.heap[n].parent = RootRef
          /\ network_graph.heap[n].level = 1
    /\ \E p \in Peers : SameAddress(Address(p), Sender)
                        /\ parent_address[p] = Address(Root)

(***************************************************************************)
(* C12.  Network full: when placement finds no eligible node for a         *)
(* registered sender, handling the Advertise Request enqueues no packet on *)
(* any connection, leaves the NetworkGraph unchanged, and the root's       *)
(* thread goes on to later frames and ticks.                               *)
(***************************************************************************)
NetworkFull ==
    /\ AdvertiseRequested
    /\ find_live_node(ev.pre.graph, Sender) = [address |-> None, hang |-> FALSE]

C12_NetworkFullIsHarmless ==
    NetworkFull => /\ nodes[Root] = ev.pre.nodes
                   /\ network_graph = ev.pre.graph
                   /\ ev.exc = "none"
                   /\ main[Root] = "running"

(***************************************************************************)
(* C13.  An Advertise Request is answered only by the root and only for a  *)
(* registered sender: for an unregistered sender the root enqueues nothing *)
(* and the NetworkGraph is unchanged; a non-root peer handed an Advertise  *)
(* Request changes no state and enqueues nothing; and wherever handling a  *)
(* packet enqueued an Advertise Response, it was the root handling the     *)
(* Advertise Request of a registered sender.                               *)
(***************************************************************************)
\* the last step appended an Advertise Response to some out_buff of p
EnqueuedAdvertiseResponse(p) ==
    \E k \in 1..Len(nodes[p]) :
       /\ (k > Len(ev.pre.nodes)
           \/ Len(nodes[p][k].out_buff) > Len(ev.pre.nodes[k].out_buff))
       /\ Len(nodes[p][k].out_buff) > 0
       /\ Last(nodes[p][k].out_buff).packet_type = ADVERTISE
       /\ Tag(Last(nodes[p][k].out_buff)) = RES

C13_OnlyRootAnswersRegistered ==
    /\ (Handled(Root, ADVERTISE) /\ Tag(ev.packet) = REQ /\ ~AdvertiseRequested)
       => /\ Self(Root) = ev.pre
          /\ ev.exc = "none"
          /\ main[Root] = "running"
    /\ \A p \in Peers :
         (Handled(p, ADVERTISE) /\ Tag(ev.packet) = REQ)
         => /\ Self(p) = ev.pre
            /\ ev.exc = "none"
            /\ main[p] = "running"
    /\ \A p \in Procs :
         (ev.op = "handle_packet" /\ ev.p = p /\ EnqueuedAdvertiseResponse(p))
         => p = Root /\ AdvertiseRequested

\* C13's case: a client that has a parent and a child is handed an
\* Advertise Request
C13_Witness ==
    \E p \in Peers :
       /\ Handled(p, ADVERTISE) /\ Tag(ev.packet) = REQ
       /\ ev.pre.parent # None
       /\ Len(ev.pre.children) > 0

\* C13's other case: the root, with a client registered and in its graph,
\* is handed the Advertise Request of another, unregistered one
C13_Witness_Unregistered ==
    /\ Handled(Root, ADVERTISE) /\ Tag(ev.packet) = REQ /\ ~AdvertiseRequested
    /\ Len(ev.pre.registered) > 0
    /\ Len(ev.pre.graph.nodes) > 1

(***************************************************************************)
(* C14.  Register Request at the root: from an address not yet registered  *)
(* it adds the address to the registered set, adds one registration        *)
(* connection to the sender and enqueues exactly one Register Response on  *)
(* it; from an address already registered it changes nothing; and a        *)
(* non-root peer handed a Register Request changes nothing.                *)
(***************************************************************************)
RegisterRequested(p) == Handled(p, REGISTER) /\ Tag(ev.packet) = REQ

WasRegistered == \E i \in 1..Len(ev.pre.registered) :
                     SameAddress(ev.pre.registered[i], Sender)

C14_RegisterRequest ==
    /\ (RegisterRequested(Root) /\ ~WasRegistered)
       => /\ ev.exc = "none" /\ main[Root] = "running"
          /\ Len(registered[Root]) = Len(ev.pre.registered) + 1
          /\ SubSeq(registered[Root], 1, Len(ev.pre.registered)) = ev.pre.registered
          /\ SameAddress(Last(registered[Root]), Sender)
          /\ Len(nodes[Root]) = Len(ev.pre.nodes) + 1
          /\ SubSeq(nodes[Root], 1, Len(ev.pre.nodes)) = ev.pre.nodes
          /\ LET node == Last(nodes[Root])
             IN /\ node.is_register
                /\ SameAddress(<<node.server_ip, node.server_port>>, Sender)
                /\ Len(node.out_buff) = 1
                /\ node.out_buff[1].packet_type = REGISTER
                /\ Tag(node.out_buff[1]) = RES
                /\ get_source_server_address(node.out_buff[1]) = Address(Root)
          /\ [Self(Root) EXCEPT !.registered = <<>>, !.nodes = <<>>]
                = [ev.pre EXCEPT !.registered = <<>>, !.nodes = <<>>]
    /\ (RegisterRequested(Root) /\ WasRegistered)
       => Self(Root) = ev.pre /\ ev.exc = "none" /\ main[Root] = "running"
    /\ \A p \in Peers :
         RegisterRequested(p)
         => Self(p) = ev.pre /\ ev.exc = "none" /\ main[p] = "running"

\* C14's cases: the root, with one client registered, is handed the request
\* of another; the root is handed the request of a registered client; a
\* client that has a parent is handed a request
C14_Witness ==
    /\ RegisterRequested(Root) /\ ~WasRegistered
    /\ Len(ev.pre.registered) > 0

C14_Witness_Repeated == RegisterRequested(Root) /\ WasRegistered

C14_Witness_NonRoot ==
    \E p \in Peers : RegisterRequested(p) /\ ev.pre.parent # None

(***************************************************************************)
(* C15.  The root's registered set only grows: no step (a heartbeat        *)
(* expiry, a pass of sending, a repeated Register or Advertise Request)    *)
(* removes an address from it, and it never holds one address twice.       *)
(***************************************************************************)
NoAddressTwice(seq) ==
    \A i, j \in 1..Len(seq) : i # j => ~SameAddress(seq[i], seq[j])

IsPrefix(a, b) == Len(a) <= Len(b) /\ SubSeq(b, 1, Len(a)) = a

C15_Witness_Repeated ==
    /\ RegisterRequested(Root) /\ WasRegistered
    /\ Len(ev.pre.graph.nodes) > 1

(***************************************************************************)
(* C16.  A decoded packet whose length field differs from the length of    *)
(* its body is rejected by handle_packet before any handler of a packet    *)
(* type runs: no field of the peer changes and nothing is enqueued, in     *)
(* Acceptance mode and in Failed mode alike.                               *)
(***************************************************************************)
HandledWrongLength(p) ==
    /\ ev.op = "handle_packet" /\ ev.p = p
    /\ ev.packet.length # Len(ev.packet.body)

C16_WrongLengthRejected ==
    \A p \in Procs :
       HandledWrongLength(p)
       => Self(p) = ev.pre /\ ev.exc = "none" /\ main[p] = "running"

\* C16's cases: a client in Failed mode is handed an Advertise Response of
\* wrong length (the one type Failed mode still handles); a peer in
\* Acceptance mode that has a child is handed a Message of wrong length from
\* that child
C16_Witness ==
    \E p \in Peers :
       /\ HandledWrongLength(p)
       /\ ev.pre.mode = "FAILED"
       /\ ev.packet.packet_type = ADVERTISE /\ Tag(ev.packet) = RES

C16_Witness_Acceptance ==
    \E p \in Procs :
       /\ HandledWrongLength(p)
       /\ ev.pre.mode = "ACCEPTANCE"
       /\ ev.packet.packet_type = MESSAGE
       /\ check_neighbour(ev.pre, Sender)

(***************************************************************************)
(* C17.  Wire round trip: for every packet p of a PacketFactory builder,   *)
(* parse_buffer(p.get_buf()) has the type, the length, the body and the    *)
(* source port of p, and its source address is the canonical (zero-padded) *)
(* form of p's source address.                                             *)
(***************************************************************************)
C17_WireRoundTrip ==
    ev.op = "round_trip"
    => /\ ev.decoded.packet_type = ev.packet.packet_type
       /\ ev.decoded.length = ev.packet.length
       /\ ev.decoded.body = ev.packet.body
       /\ ev.decoded.source_port = ev.packet.source_port
       /\ ev.decoded.source_ip = parse_ip(ev.packet.source_ip)

(***************************************************************************)
(* C18.  Broadcast without echo: when a peer P in Acceptance mode handles  *)
(* a Message whose source is its neighbour N, it enqueues one copy,        *)
(* stamped with P's own address, on the connection of every other          *)
(* neighbour of P (its parent and each child other than N) and nothing on  *)
(* any connection to N.                                                    *)
(***************************************************************************)
\* the neighbours a peer state holds: its parent and its children
NeighbourAddresses(s) ==
    {s.children[i] : i \in 1..Len(s.children)}
    \cup (IF s.parent = None THEN {} ELSE {s.parent})

IsNeighbour(s, a) == \E n \in NeighbourAddresses(s) : SameAddress(n, a)

\* the packets the last step appended to connection k of p
Gained(p, k) ==
    IF k > Len(ev.pre.nodes) THEN nodes[p][k].out_buff
    ELSE SubSeq(nodes[p][k].out_buff, Len(ev.pre.nodes[k].out_buff) + 1,
                Len(nodes[p][k].out_buff))

\* the places of the packets the last step enqueued for address a
CopiesFor(p, a) ==
    {<<k, i>> \in (1..Len(nodes[p])) \X (1..8) :
        /\ SameAddress(<<nodes[p][k].server_ip, nodes[p][k].server_port>>, a)
        /\ i <= Len(Gained(p, k))}

MessageFromNeighbour(p) ==
    /\ Handled(p, MESSAGE)
    /\ ev.pre.mode = "ACCEPTANCE"
    /\ IsNeighbour(ev.pre, Sender)

C18_BroadcastNoEcho ==
    \A p \in Procs :
       MessageFromNeighbour(p)
       => /\ ev.exc = "none"
          /\ CopiesFor(p, Sender) = {}
          /\ \A n \in NeighbourAddresses(ev.pre) :
               ~SameAddress(n, Sender)
               => /\ Cardinality(CopiesFor(p, n)) = 1
                  /\ \A c \in CopiesFor(p, n) :
                       /\ ~nodes[p][c[1]].is_register
                       /\ Gained(p, c[1])[c[2]]
                            = new_message_packet(ev.packet.body, Address(p))

(***************************************************************************)
(* C19.  A peer in Acceptance mode forwards a received Message if and only *)
(* if its source is the peer's parent or one of its children: a Message of *)
(* the parent or of a child is forwarded to every other neighbour, and a   *)
(* Message of any other source enqueues nothing and changes no state.      *)
(***************************************************************************)
C19_ForwardIffNeighbour ==
    \A p \in Procs :
       (Handled(p, MESSAGE) /\ ev.pre.mode = "ACCEPTANCE")
       => /\ ev.exc = "none"
          /\ IF IsNeighbour(ev.pre, Sender)
             THEN \A n \in NeighbourAddresses(ev.pre) :
                     ~SameAddress(n, Sender) => CopiesFor(p, n) # {}
             ELSE Self(p) = ev.pre

(***************************************************************************)
(* C20.  Every address comparison and lookup treats two addresses as the   *)
(* same iff their canonical forms match: the source address decoded from a *)
(* packet header is found in the NetworkGraph node table, the registered   *)
(* set, the connection table, parent_address and children_addresses        *)
(* exactly when they hold an address with the same canonical form.         *)
(***************************************************************************)
HasConnection(ns, a, want_register) ==
    \E k \in 1..Len(ns) :
       /\ SameAddress(<<ns[k].server_ip, ns[k].server_port>>, a)
       /\ ns[k].is_register = want_register

C20_CanonicalEquality ==
    \A p \in Procs :
       (ev.op = "handle_packet" /\ ev.p = p)
       => /\ p = Root
             => ((find_node(ev.pre.graph, Sender) # NoneRef)
                 <=> (NodeAt(ev.pre.graph, Sender) # NoneRef))
          /\ IsRegistered(ev.pre, SemiNode(Sender[1], Sender[2])) <=> WasRegistered
          /\ \A want_register \in BOOLEAN :
               (get_node_by_address(ev.pre.nodes, Sender[1], Sender[2],
                                    want_register) # 0)
               <=> HasConnection(ev.pre.nodes, Sender, want_register)
          /\ check_neighbour(ev.pre, Sender) <=> IsNeighbour(ev.pre, Sender)

(***************************************************************************)
(* C21.  While reunion_mode is Failed, handle_packet processes Advertise   *)
(* packets only: a Register, Join, Message or Reunion packet handled in    *)
(* Failed mode leaves parent_address, children_addresses, the connection   *)
(* table, every outbound queue and the heartbeat times unchanged, while an *)
(* Advertise Response is still processed and returns the peer to           *)
(* Acceptance mode.                                                        *)
(***************************************************************************)
HandledInFailed(p) ==
    /\ ev.op = "handle_packet" /\ ev.p = p
    /\ ev.pre.mode = "FAILED"

C21_FailedHandlesAdvertiseOnly ==
    \A p \in Peers :
       HandledInFailed(p)
       => /\ ev.packet.packet_type \in {REGISTER, JOIN, MESSAGE, REUNION}
             => Self(p) = ev.pre /\ ev.exc = "none" /\ main[p] = "running"
          /\ (Handled(p, ADVERTISE) /\ Tag(ev.packet) = RES)
             => /\ reunion_mode[p] = "ACCEPTANCE"
                /\ parent_address[p] = AdvertisedInBody(ev.packet)
                /\ hello_gap[p] = "acked"

\* C21's cases: a Failed client that has a parent and a child is handed a
\* Message of that child; a Failed client is handed a Join; a Failed client
\* is handed an Advertise Response
C21_Witness ==
    \E p \in Peers :
       /\ HandledInFailed(p) /\ Handled(p, MESSAGE)
       /\ \E i \in 1..Len(ev.pre.children) : ev.pre.children[i] = Sender

C21_Witness_Join == \E p \in Peers : HandledInFailed(p) /\ Handled(p, JOIN)

C21_Witness_Recovers ==
    \E p \in Peers :
       HandledInFailed(p) /\ Handled(p, ADVERTISE) /\ Tag(ev.packet) = RES

(***************************************************************************)
(* C22.  At no moment when a peer's reunion_mode is Failed is a packet     *)
(* transmitted from one of its non-registration connections, however the   *)
(* reunion thread interleaves with the main loop: in Failed mode only      *)
(* registration connections are flushed.                                   *)
(***************************************************************************)
Transmitted(p) == ev.op = "flush_node" /\ ev.p = p /\ Len(ev.sent) > 0

C22_NoTreeTrafficWhileFailed ==
    \A p \in Procs :
       (Transmitted(p) /\ ev.pre.mode = "FAILED")
       => ev.pre.nodes[ev.node].is_register

(***************************************************************************)
(* C23.  When flushing a connection fails with a transport error, that     *)
(* connection is removed from the connection table and nothing else        *)
(* changes: parent_address, children_addresses, the registered set and the *)
(* root's NetworkGraph stay as they were, every other connection keeps its *)
(* queue, and the unsent packets are not enqueued again.                   *)
(***************************************************************************)
SendFailed(p) == ev.op = "flush_node" /\ ev.p = p /\ ev.reply = "error"

C23_SendFailureRemovesConnectionOnly ==
    \A p \in Procs :
       SendFailed(p)
       => /\ nodes[p] = SubSeq(ev.pre.nodes, 1, ev.node - 1)
                        \o SubSeq(ev.pre.nodes, ev.node + 1, Len(ev.pre.nodes))
          /\ [Self(p) EXCEPT !.nodes = <<>>] = [ev.pre EXCEPT !.nodes = <<>>]

\* C23's cases: at the root, the send to a client that is registered and in
\* the NetworkGraph fails; at a client that has a child, the send to its
\* parent fails while another connection holds packets
C23_Witness ==
    /\ SendFailed(Root)
    /\ Len(ev.pre.registered) > 0
    /\ Len(ev.pre.graph.nodes) > 1

C23_Witness_Client ==
    \E p \in Peers :
       /\ SendFailed(p)
       /\ Len(ev.pre.children) > 0
       /\ SameAddress(<<ev.pre.nodes[ev.node].server_ip,
                        ev.pre.nodes[ev.node].server_port>>, ev.pre.parent)
       /\ HasOutput(nodes[p])

(***************************************************************************)
(* C24.  A send whose reply is anything other than the token ACK is a      *)
(* delivery failure like a connection error: the connection it was sent on *)
(* is discarded.                                                           *)
(***************************************************************************)
NotAcked(p) == ev.op = "flush_node" /\ ev.p = p /\ ev.reply = "other"

C24_NotAckedIsFailure ==
    \A p \in Procs :
       NotAcked(p)
       => nodes[p] = SubSeq(ev.pre.nodes, 1, ev.node - 1)
                     \o SubSeq(ev.pre.nodes, ev.node + 1, Len(ev.pre.nodes))

(***************************************************************************)
(* C25.  In every reachable state a peer's connection table holds at most  *)
(* one connection per (address, is_register) pair, whatever Register       *)
(* Requests, Advertise Responses and Joins, repeated ones included, it was *)
(* handed.                                                                 *)
(***************************************************************************)
C25_OneConnectionPerAddress ==
    \A p \in Procs :
       \A i, j \in 1..Len(nodes[p]) :
          (/\ SameAddress(<<nodes[p][i].server_ip, nodes[p][i].server_port>>,
                          <<nodes[p][j].server_ip, nodes[p][j].server_port>>)
           /\ nodes[p][i].is_register = nodes[p][j].is_register)
          => i = j


(***************************************************************************)
(* C26: a received frame with an unknown type code, or an Advertise,       *)
(* Register or Reunion packet whose first three body characters are        *)
(* neither REQ nor RES, is dropped silently: the peer's state does not     *)
(* change, nothing is enqueued, and the main loop goes on.                 *)
(***************************************************************************)
GarbledPacket(packet) ==
    \/ packet.packet_type \notin {REGISTER, ADVERTISE, JOIN, MESSAGE, REUNION}
    \/ /\ packet.packet_type \in {REGISTER, ADVERTISE, REUNION}
       /\ Slice(packet.body, 0, 3) \notin {REQ, RES}

HandledGarbled(p) ==
    /\ ev.op = "handle_packet"
    /\ ev.p = p
    /\ GarbledPacket(ev.packet)

C26_GarbledDroppedSilently ==
    \A p \in Procs :
        HandledGarbled(p) => (Self(p) = ev.pre /\ main[p] = "running")


(***************************************************************************)
(* C27: registration and tree traffic never share a connection: Message,   *)
(* Join and Reunion packets wait only on connections with is_register =    *)
(* false, Register and Advertise packets only on connections with          *)
(* is_register = true.                                                     *)
(***************************************************************************)
RegistrationTraffic(packet) == packet.packet_type \in {REGISTER, ADVERTISE}

C27_TrafficSeparated ==
    \A p \in Procs : \A i \in 1..Len(nodes[p]) :
        \A k \in 1..Len(nodes[p][i].out_buff) :
            RegistrationTraffic(nodes[p][i].out_buff[k]) = nodes[p][i].is_register

\* a client holds a registration connection and a tree connection to the
\* root, with a Register or Advertise packet waiting on the first and a
\* Join or Message packet on the second
C27_Witness ==
    \E i, j \in 1..Len(nodes[1]) :
        /\ nodes[1][i].server_ip = nodes[1][j].server_ip
        /\ nodes[1][i].server_port = nodes[1][j].server_port
        /\ nodes[1][i].is_register /\ ~nodes[1][j].is_register
        /\ Len(nodes[1][i].out_buff) > 0
        /\ Len(nodes[1][j].out_buff) > 0

\* the command sendmessage has put a Message packet on a tree connection
C27_Witness_Broadcast ==
    /\ ev.op = "flush_begin"
    /\ ev.command = "sendmessage"
    /\ \E i \in 1..Len(nodes[ev.p]) :
          /\ Len(nodes[ev.p][i].out_buff) > Len(ev.pre.nodes[i].out_buff)
          /\ nodes[ev.p][i].out_buff[Len(nodes[ev.p][i].out_buff)].packet_type = MESSAGE


(***************************************************************************)
(* C28: self-healing.  A client in Failed mode comes back to Acceptance    *)
(* mode with a parent whenever the root runs, the client is registered and *)
(* the graph has a node to offer it, even after a send to or from the root *)
(* has failed.  Stated on the states: such a client is never cut off,      *)
(* where a client is cut off when no step of any thread, in any order, can *)
(* take it out of Failed mode any more (C28_CutOffForever).                *)
(***************************************************************************)
RootRuns == main[Root] = "running"

HasPlaceFor(p) ==
    LET found == find_live_node(network_graph, Address(p))
    IN ~found.hang /\ found.address # None

CanHeal(p) ==
    /\ RootRuns
    /\ main[p] = "running" /\ daemon[p] = "running"
    /\ IsRegistered(Self(Root), Address(p))
    /\ HasPlaceFor(p)

Healed(p) == reunion_mode[p] = "ACCEPTANCE" /\ parent_address[p] # None

AdvertiseWaiting(q) ==
    \/ \E k \in 1..Len(in_buf[q]) : parse_buffer(in_buf[q][k]).packet_type = ADVERTISE
    \/ \E i \in 1..Len(nodes[q]) : \E k \in 1..Len(nodes[q][i].out_buff) :
          nodes[q][i].out_buff[k].packet_type = ADVERTISE

\* the client has lost its registration connection to the root, and no
\* Advertise packet is on its way
CutOffAtClient(p) ==
    /\ reunion_mode[p] = "FAILED"
    /\ budget.commands[p] = 0
    /\ get_node_by_address(nodes[p], ROOT_ADDRESS[1], ROOT_ADDRESS[2], TRUE) = 0
    /\ ~AdvertiseWaiting(p)
    /\ ~AdvertiseWaiting(Root)

\* once cut off, always cut off, and so in Failed mode for ever
C28_CutOffForever == [][CutOffAtClient(2) => CutOffAtClient(2)']_vars

C28_SelfHealing == CanHeal(2) => ~CutOffAtClient(2)


(***************************************************************************)
(* C29: each pass of the reunion daemon of a client does exactly one of:   *)
(* (a) when the last hello is more than MAX_PENDING_TIME after the last    *)
(* hello back, it sets Failed mode and enqueues one Advertise Request on   *)
(* the registration connection to the root, and no Reunion Hello; (b)      *)
(* otherwise it enqueues one Reunion Hello with the path [self] on the     *)
(* connection to the parent and sets last_hello_time.  After (a) the next  *)
(* pass is (a) again.                                                      *)
(***************************************************************************)
DaemonPass(p) == ev.op = "reunion_daemon" /\ ev.p = p /\ ev.exc = "none"

\* the places <<connection, position>> of the packets the pass enqueued
NewPackets(p) ==
    UNION {{<<i, k>> : k \in (Len(ev.pre.nodes[i].out_buff) + 1)..Len(nodes[p][i].out_buff)} :
              i \in 1..Len(nodes[p])}

\* the pass left everything but the out_buffs, the mode and the hello times
\* as it was
DaemonTouchedNoMore(p) ==
    /\ Len(nodes[p]) = Len(ev.pre.nodes)
    /\ \A i \in 1..Len(nodes[p]) :
          /\ Len(nodes[p][i].out_buff) >= Len(ev.pre.nodes[i].out_buff)
          /\ [nodes[p][i] EXCEPT !.out_buff = SubSeq(@, 1, Len(ev.pre.nodes[i].out_buff))]
                 = ev.pre.nodes[i]
    /\ [Self(p) EXCEPT !.nodes = ev.pre.nodes, !.mode = ev.pre.mode, !.gap = ev.pre.gap]
           = ev.pre

\* pass (a), with n packets enqueued
ReadvertisedOnly(p, n) ==
    /\ reunion_mode[p] = "FAILED"
    /\ hello_gap[p] = "late"
    /\ Cardinality(NewPackets(p)) = n
    /\ \A x \in NewPackets(p) :
          /\ nodes[p][x[1]].is_register
          /\ SameAddress(<<nodes[p][x[1]].server_ip, nodes[p][x[1]].server_port>>,
                         ROOT_ADDRESS)
          /\ nodes[p][x[1]].out_buff[x[2]] = new_advertise_packet(REQ, Address(p), None)

\* pass (b), with n packets enqueued
HelloOnly(p, n) ==
    /\ reunion_mode[p] = ev.pre.mode
    /\ hello_gap[p] \in {"pending", "late"}
    /\ Cardinality(NewPackets(p)) = n
    /\ \A x \in NewPackets(p) :
          /\ ~nodes[p][x[1]].is_register
          /\ SameAddress(<<nodes[p][x[1]].server_ip, nodes[p][x[1]].server_port>>,
                         parent_address[p])
          /\ nodes[p][x[1]].out_buff[x[2]]
                 = new_reunion_packet(REQ, Address(p), <<Address(p)>>)

HeldRegistration(p) ==
    get_node_by_address(ev.pre.nodes, ROOT_ADDRESS[1], ROOT_ADDRESS[2], TRUE) # 0

HeldParent(p) ==
    get_node_by_address(ev.pre.nodes, ev.pre.parent[1], ev.pre.parent[2], FALSE) # 0

C29_Witness_Hello == \E p \in Peers : DaemonPass(p) /\ ev.pre.gap # "late" /\ HeldParent(p)

\* pass (a) twice in a row
C29_Witness_Repeated ==
    \E p \in Peers : DaemonPass(p) /\ ev.pre.gap = "late" /\ ev.pre.mode = "FAILED"

\* a pass after a failed send took the connection away
C29_Witness_Lost ==
    \E p \in Peers :
        DaemonPass(p) /\ IF ev.pre.gap = "late" THEN ~HeldRegistration(p) ELSE ~HeldParent(p)


(***************************************************************************)
(* C30: after each pass of the root's reunion daemon every node of the     *)
(* node table, the root excepted, whose last hello was more than           *)
(* MAX_HELLO_INTERVAL old when the pass began is out of the NetworkGraph   *)
(* and has lost its non-registration connection, also when several such    *)
(* nodes are neighbours in the node table; the other nodes are untouched.  *)
(***************************************************************************)
\* a pass that came to its end
RootPass == ev.op = "root_daemon" /\ ev.exc = "none"

Expired(a) ==
    /\ a \notin TableAddresses(network_graph)
    /\ get_node_by_address(nodes[Root], a[1], a[2], FALSE) = 0

Untouched(a) ==
    /\ a \in TableAddresses(network_graph)
    /\ get_node_by_address(ev.pre.nodes, a[1], a[2], FALSE) # 0
          => get_node_by_address(nodes[Root], a[1], a[2], FALSE) # 0

C30_AllStaleExpired ==
    RootPass =>
        /\ \A a \in ev.stale : Expired(a)
        /\ \A a \in TableAddresses(ev.pre.graph) \ ev.stale : Untouched(a)


(***************************************************************************)
(* C31: the reunion_mode of a client becomes Failed only in a pass of its  *)
(* reunion daemon that finds the hello overdue, and only with a parent     *)
(* address set by an Advertise Response; it comes back to Acceptance only  *)
(* by handling an Advertise Response; no other packet and no user command  *)
(* changes it, and the root is never in Failed mode.                       *)
(***************************************************************************)
FailedHasParent ==
    \A p \in Procs : reunion_mode[p] = "FAILED" => (p # Root /\ parent_address[p] # None)

\* the step to the next state is the pass of p's reunion daemon on timeout
TimeoutPass(p) ==
    /\ ev'.op = "reunion_daemon" /\ ev'.p = p
    /\ ev'.pre.gap = "late"

\* the step to the next state is p handling an Advertise Response
ResponseHandled(p) ==
    /\ ev'.op = "handle_packet" /\ ev'.p = p
    /\ ev'.packet.packet_type = ADVERTISE
    /\ Slice(ev'.packet.body, 0, 3) = RES

ModeChangesOnlySo ==
    \A p \in Procs :
        /\ (reunion_mode[p] # "FAILED" /\ reunion_mode'[p] = "FAILED") => TimeoutPass(p)
        /\ (reunion_mode[p] = "FAILED" /\ reunion_mode'[p] # "FAILED") => ResponseHandled(p)

C31_ModeTransitions == [](FailedHasParent) /\ [][ModeChangesOnlySo]_vars

\* a client has come back from Failed mode by an Advertise Response
C31_Witness ==
    /\ ev.op = "handle_packet"
    /\ ev.pre.mode = "FAILED"
    /\ reunion_mode[ev.p] = "ACCEPTANCE"

\* a client has just entered Failed mode
C31_Witness_Failed ==
    /\ ev.op = "reunion_daemon"
    /\ ev.pre.mode = "ACCEPTANCE"
    /\ reunion_mode[ev.p] = "FAILED"

\* a client in Failed mode was handed a packet that is no Advertise Response
C31_Witness_Other ==
    /\ ev.op = "handle_packet"
    /\ ev.pre.mode = "FAILED"
    /\ ev.packet.packet_type # ADVERTISE

\* the user typed a command at a client in Failed mode
C31_Witness_Command ==
    /\ ev.op = "flush_begin"
    /\ ev.command # "none"
    /\ ev.pre.mode = "FAILED"

(***************************************************************************)
(* C32.  Every frame the callback acknowledges and appends to the inbox is *)
(* handed to handle_packet exactly once: whenever Peer.run clears the      *)
(* inbox, every frame in it was given to handle_packet by the loop before, *)
(* under every interleaving of the callback with the loop and the clear.   *)
(***************************************************************************)
Cleared == ev.op = "clear_in_buff"

C32_NoFrameDiscarded == Cleared => Len(ev.in_buf) = ev.given

\* a frame arrived while the loop was running, and the loop handled it
C32_Witness_Handled == Cleared /\ ev.given = 2 /\ Len(ev.in_buf) = 2

\* a frame is cleared that no handle_packet was given
C32_Witness_Discarded == Cleared /\ Len(ev.in_buf) > ev.given

(***************************************************************************)
(* C33.  In every reachable state the children list of every peer holds at *)
(* most MaxChildren (2) addresses, whatever Joins, re-advertisements and   *)
(* expirations came before.                                                *)
(***************************************************************************)
C33_AtMostTwoChildren ==
    \A p \in Procs : Len(children_addresses[p]) <= MaxChildren

\* a peer has taken two Joins
C33_Witness_Two ==
    \E p \in Procs : Handled(p, JOIN) /\ Len(children_addresses[p]) = MaxChildren

\* a peer has taken a Join beyond its second
C33_Witness_Third ==
    \E p \in Procs : Handled(p, JOIN) /\ Len(children_addresses[p]) > MaxChildren

(***************************************************************************)
(* C34.  Parent and children references of the NetworkGraph agree: every   *)
(* node of the node table that has a parent occurs exactly once in the     *)
(* children list of that parent and in the children list of no other node  *)
(* of the table.                                                           *)
(***************************************************************************)
TimesIn(list, x) == Cardinality({i \in 1..Len(list) : list[i] = x})

ListedOnceUnderParent(g, n) ==
    LET parent == g.heap[n].parent
    IN parent # NoneRef =>
          /\ TimesIn(g.heap[parent].children, n) = 1
          /\ \A i \in 1..Len(g.nodes) :
                g.nodes[i] # parent => TimesIn(g.heap[g.nodes[i]].children, n) = 0

C34_ParentChildrenConsistent ==
    \A i \in 1..Len(network_graph.nodes) :
        ListedOnceUnderParent(network_graph, network_graph.nodes[i])

\* add_node has attached a node of the table again
Reattached ==
    /\ ev.op = "add_node" /\ ev.exc = "none"
    /\ ev.args[1] \in TableAddresses(ev.pre)

C34_Witness_Reattached == Reattached

\* a node attached again under the parent it has is listed there twice
C34_Witness_Twice ==
    /\ Reattached
    /\ \E i \in 1..Len(network_graph.nodes) :
         LET n == network_graph.nodes[i]
             parent == network_graph.heap[n].parent
         IN parent # NoneRef /\ TimesIn(network_graph.heap[parent].children, n) = 2

\* a node attached under a new parent is still listed under the old one
C34_Witness_OldParent ==
    /\ Reattached
    /\ \E i, j \in 1..Len(network_graph.nodes) :
         LET n == network_graph.nodes[i]
             other == network_graph.nodes[j]
         IN /\ network_graph.heap[n].parent \notin {NoneRef, other}
            /\ TimesIn(network_graph.heap[other].children, n) > 0

(***************************************************************************)
(* C35.  With no peer stopped from outside, no send failing and every      *)
(* packet delivered, a client attached to the tree never enters Failed     *)
(* mode: each of its Hellos is acknowledged.  As a property of states: as  *)
(* long as an attached client waits for a Hello Back, its Hello or the     *)
(* Hello Back for it is still on its way, in an in_buf or an out_buff.     *)
(***************************************************************************)
\* a Reunion Hello that p originated, or a Hello Back that ends at p
HelloOf(p, packet) ==
    /\ packet.packet_type = REUNION
    /\ Tag(packet) \in {REQ, RES}
    /\ ReunionReadable(packet)
    /\ get_n_entries(packet) >= 1
    /\ IF Tag(packet) = REQ
       THEN get_addresses(packet)[1] = Address(p)
       ELSE Last(get_addresses(packet)) = Address(p)

HelloOnItsWay(p) ==
    \E q \in Procs :
       \/ \E i \in 1..Len(in_buf[q]) : HelloOf(p, parse_buffer(in_buf[q][i]))
       \/ \E k \in 1..Len(nodes[q]) : \E j \in 1..Len(nodes[q][k].out_buff) :
             HelloOf(p, nodes[q][k].out_buff[j])

WaitsForHelloBack(p) ==
    /\ parent_address[p] # None
    /\ reunion_mode[p] = "ACCEPTANCE"
    /\ hello_gap[p] # "acked"

C35_HelloAcknowledged ==
    \A p \in Peers : WaitsForHelloBack(p) => HelloOnItsWay(p)

\* a client has received its Hello Back
C35_Witness_Acked ==
    \E p \in Peers :
       /\ Handled(p, REUNION) /\ Tag(ev.packet) = RES
       /\ ev.pre.gap # "acked" /\ hello_gap[p] = "acked"

\* a client waits for a Hello Back that nothing in the system will bring
C35_Witness_Lost ==
    \E p \in Peers : WaitsForHelloBack(p) /\ ~HelloOnItsWay(p)

\* a client whose Hello was lost enters Failed mode
C35_Witness_Failed ==
    \E p \in Peers :
       /\ ev.op = "reunion_daemon" /\ ev.p = p
       /\ ev.pre.mode = "ACCEPTANCE" /\ ev.pre.gap = "late"
       /\ reunion_mode[p] = "FAILED"
       /\ main[Root] = "dead"

(***************************************************************************)
(* C36.  Expiry terminates: on every graph that Advertise Requests and     *)
(* earlier expiries have built, remove_node with its turn_off_subtree walk *)
(* over the children lists returns, so a pass of the root's reunion daemon *)
(* that expires nodes comes to its end.                                    *)
(***************************************************************************)
ExpiryPass == ev.op = "root_daemon" /\ ev.p = Root

C36_ExpiryTerminates == ExpiryPass => ev.exc # "hang"

\* an expiry has walked a subtree with more than the expired node and returned
C36_Witness_Returned ==
    /\ ExpiryPass /\ ev.exc = "none"
    /\ \E a \in ev.stale :
         Len(ev.pre.graph.heap[find_node(ev.pre.graph, a)].children) > 0

\* an expiry walks a cycle of children lists
C36_Witness_Cycle ==
    /\ ExpiryPass /\ ev.exc = "hang"
    /\ \E a \in ev.stale :
         ChildrenCycleFrom(ev.pre.graph.heap, find_node(ev.pre.graph, a))

(***************************************************************************)
(* C37.  In every reachable state of the root, every address of the        *)
(* registered list has a registration connection in the root's Stream, so  *)
(* that an Advertise Response for it can be enqueued; also after expiries  *)
(* and after a send to that address has failed.                            *)
(***************************************************************************)
RootConnectionTo(semi_node) ==
    get_node_by_address(nodes[Root], semi_node[1], semi_node[2], TRUE)

C37_RegisteredHaveConnection ==
    \A i \in 1..Len(registered[Root]) : RootConnectionTo(registered[Root][i]) # 0

\* the root has sent to a registered client on its registration connection
C37_Witness_Sent ==
    /\ ev.op = "flush_node" /\ ev.p = Root /\ ev.reply = "ACK"
    /\ ev.pre.nodes[ev.node].is_register
    /\ Len(registered[Root]) > 0

\* a send on the registration connection of a registered client has failed
C37_Witness_SendFailed ==
    /\ SendFailed(Root)
    /\ ev.pre.nodes[ev.node].is_register
    /\ \E i \in 1..Len(registered[Root]) :
          registered[Root][i] = <<ev.pre.nodes[ev.node].server_ip,
                                  ev.pre.nodes[ev.node].server_port>>

\* the Register Request of a registered client that has lost its
\* connection is handled, and it still has none
C37_Witness_RegisteredAgain ==
    /\ Handled(Root, REGISTER)
    /\ \E i \in 1..Len(registered[Root]) :
          /\ registered[Root][i] = SemiNode(ev.packet.source_ip, ev.packet.source_port)
          /\ RootConnectionTo(registered[Root][i]) = 0

(***************************************************************************)
(* C38.  A Reunion Hello that reaches the root and whose first path entry  *)
(* is not in the node table is absorbed: the NetworkGraph is unchanged and *)
(* the root's Peer.run goes on.                                            *)
(***************************************************************************)
HelloFromUnknown ==
    /\ Handled(Root, REUNION) /\ Tag(ev.packet) = REQ
    /\ ReunionReadable(ev.packet)
    /\ get_n_entries(ev.packet) >= 1
    /\ find_node(ev.pre.graph, get_addresses(ev.packet)[1]) = NoneRef

C38_UnknownHelloAbsorbed ==
    HelloFromUnknown =>
        /\ ev.exc = "none"
        /\ network_graph = ev.pre.graph
        /\ main[Root] = "running"

\* the Hello of a node that an expiry took out of the table is handled
C38_Witness_Expired ==
    /\ HelloFromUnknown
    /\ IsRegistered(ev.pre, get_addresses(ev.packet)[1])
    /\ budget.expire < MaxExpire

\* the root's Peer.run ends on such a Hello
C38_Witness_Ended == HelloFromUnknown /\ main[Root] = "dead"

(***************************************************************************)
(* C39.  Under every interleaving of the root's reunion thread with its    *)
(* main loop, the parent address that placement returned for an Advertise  *)
(* Request is still in the node table when add_node runs with it.          *)
(***************************************************************************)
Attaching == ev.op = "attach" /\ ev.p = Root

C39_ParentStillInTable ==
    Attaching => find_node(ev.pre.graph, ev.advertised) # NoneRef

\* add_node has run with a client's node as the parent
C39_Witness_UnderClient ==
    /\ Attaching /\ ev.exc = "none"
    /\ ev.advertised # Address(Root)
    /\ find_node(ev.pre.graph, ev.advertised) # NoneRef

\* add_node has run with a parent that an expiry took out of the table
\* after placement had returned it
C39_Witness_Expired ==
    /\ Attaching
    /\ find_node(ev.pre.graph, ev.advertised) = NoneRef
    /\ budget.expire < MaxExpire
====
